---- MODULE Spec2Model ----
(***************************************************************************)
(* State-machine model of the ExodusII reader ReadNCDF (src/ReadNCDF.cpp). *)
(*                                                                         *)
(* One reader object works against one mesh database.  Its caller surface  *)
(* is read_tag_values and load_file; load_file either runs the full read   *)
(* pipeline (header, nodes, block headers, elements, global ids, node      *)
(* sets, side sets, QA records) or dispatches to update.  Each stage of a  *)
(* call is one action; pc is the position inside the running call.         *)
(***************************************************************************)
EXTENDS Integers, Sequences, FiniteSets, TLC

\* ------------------------------------------------------------------ bounds
\* number of calls made on the reader in one behaviour
MaxCalls == 2
\* distance, in ints, between the end of block_ids' storage and the start of
\* new_blocks' storage in read_block_headers ranges over 0..MaxGap
MaxGap == 1
\* size of the time_step dimension of the file update reads
MaxTimeSteps == 2
\* width of the C int, scaled down; ints range over -2^(IntBits-1)..2^(IntBits-1)-1
IntBits == 16

\* ------------------------------------------------------- program constants
MB_START_ID == 1

\* error codes (moab::ErrorCode)
MB_SUCCESS               == "MB_SUCCESS"
MB_FAILURE               == "MB_FAILURE"
MB_ENTITY_NOT_FOUND      == "MB_ENTITY_NOT_FOUND"
MB_TAG_NOT_FOUND         == "MB_TAG_NOT_FOUND"
MB_FILE_DOES_NOT_EXIST   == "MB_FILE_DOES_NOT_EXIST"
MB_NOT_IMPLEMENTED       == "MB_NOT_IMPLEMENTED"
MB_TYPE_OUT_OF_RANGE     == "MB_TYPE_OUT_OF_RANGE"
MB_INVALID_SIZE          == "MB_INVALID_SIZE"
MB_UNSUPPORTED_OPERATION == "MB_UNSUPPORTED_OPERATION"

\* tag names compared by load_file and read_tag_values
MATERIAL_SET_TAG_NAME  == "MATERIAL_SET"
DIRICHLET_SET_TAG_NAME == "DIRICHLET_SET"
NEUMANN_SET_TAG_NAME   == "NEUMANN_SET"

\* the element type a block record carries until its connectivity is read
EXOII_MAX_ELEM_TYPE == "EXOII_MAX_ELEM_TYPE"

\* a tag value is <<>> while the tag was never set on the entity, else the
\* tuple of the values set
NoTag == <<>>

\* ------------------------------------------------------------ small helpers
Range(s) == {s[i] : i \in DOMAIN s}

RECURSIVE SumSeq(_)
SumSeq(s) == IF s = <<>> THEN 0 ELSE Head(s) + SumSeq(Tail(s))

RECURSIVE Flatten(_)
Flatten(ss) == IF ss = <<>> THEN <<>> ELSE Head(ss) \o Flatten(Tail(ss))

\* position of the first occurrence of x in s, 0 when absent (std::find)
RECURSIVE FindFrom(_, _, _)
FindFrom(s, x, i) ==
  IF i > Len(s) THEN 0 ELSE IF s[i] = x THEN i ELSE FindFrom(s, x, i + 1)

Find(s, x) == FindFrom(s, x, 1)

\* (unsigned)c for a C int c
ToUnsigned(c) == IF c < 0 THEN c + 2 ^ IntBits ELSE c

\* ------------------------------------------------- element catalog (ExoIIUtil, CN)
\* ranges of the ExoIIElementType enumeration tested by the reader
InHexRange(t)   == t \in {"EXOII_HEX", "EXOII_HEX8", "EXOII_HEX9", "EXOII_HEX20", "EXOII_HEX27"}
InTetraRange(t) == t \in {"EXOII_TETRA", "EXOII_TETRA4", "EXOII_TETRA8", "EXOII_TETRA10", "EXOII_TETRA14"}
InQuadRange(t)  == t \in {"EXOII_QUAD", "EXOII_QUAD4", "EXOII_QUAD5", "EXOII_QUAD8", "EXOII_QUAD9"}
InShellRange(t) == t \in {"EXOII_SHELL", "EXOII_SHELL4", "EXOII_SHELL5", "EXOII_SHELL8", "EXOII_SHELL9"}
InTriRange(t)   == t \in {"EXOII_TRI", "EXOII_TRI3", "EXOII_SHELL3", "EXOII_TRI6", "EXOII_TRI7"}

\* ExoIIUtil::static_element_name_to_type on the elem_type attribute
static_element_name_to_type(name) ==
  CASE name = "HEX8"   -> "EXOII_HEX8"
    [] name = "TETRA4" -> "EXOII_TETRA4"
    [] name = "QUAD4"  -> "EXOII_QUAD4"
    [] name = "SHELL4" -> "EXOII_SHELL4"
    [] name = "TRI3"   -> "EXOII_TRI3"
    [] OTHER           -> EXOII_MAX_ELEM_TYPE

\* ExoIIUtil::VerticesPerElement
VerticesPerElement(t) ==
  CASE t = "EXOII_HEX8"   -> 8
    [] t = "EXOII_TETRA4" -> 4
    [] t = "EXOII_QUAD4"  -> 4
    [] t = "EXOII_SHELL4" -> 4
    [] t = "EXOII_TRI3"   -> 3
    [] OTHER              -> 0

\* ExoIIUtil::ExoIIElementMBEntity
ExoIIElementMBEntity(t) ==
  CASE t = "EXOII_HEX8"   -> "MBHEX"
    [] t = "EXOII_TETRA4" -> "MBTET"
    [] t = "EXOII_QUAD4"  -> "MBQUAD"
    [] t = "EXOII_SHELL4" -> "MBQUAD"
    [] t = "EXOII_TRI3"   -> "MBTRI"
    [] OTHER              -> "MBMAXTYPE"

\* CN::Dimension
Dimension(mbtype) ==
  CASE mbtype = "MBVERTEX" -> 0
    [] mbtype = "MBEDGE"   -> 1
    [] mbtype \in {"MBTRI", "MBQUAD"} -> 2
    [] mbtype \in {"MBTET", "MBHEX"}  -> 3
    [] OTHER -> 4

\* CN::SubEntityNodeIndices(type, n, dim, side): the sub-entity's type and the
\* 0-based positions of its nodes in the parent's connectivity; an empty index
\* list stands for num_side_nodes <= 0 (no such side)
SubEntityNodeIndices(mbtype, dim, side) ==
  LET none == [subtype |-> "MBMAXTYPE", idx |-> <<>>]
      hexF == << <<0,1,5,4>>, <<1,2,6,5>>, <<2,3,7,6>>, <<3,0,4,7>>, <<3,2,1,0>>, <<4,5,6,7>> >>
      tetF == << <<0,1,3>>, <<1,2,3>>, <<0,3,2>>, <<2,1,0>> >>
      quadE == << <<0,1>>, <<1,2>>, <<2,3>>, <<3,0>> >>
      triE == << <<0,1>>, <<1,2>>, <<2,0>> >>
  IN CASE mbtype = "MBHEX" /\ dim = 2 /\ side \in 0..5 -> [subtype |-> "MBQUAD", idx |-> hexF[side + 1]]
       [] mbtype = "MBTET" /\ dim = 2 /\ side \in 0..3 -> [subtype |-> "MBTRI", idx |-> tetF[side + 1]]
       [] mbtype = "MBQUAD" /\ dim = 1 /\ side \in 0..3 -> [subtype |-> "MBEDGE", idx |-> quadE[side + 1]]
       [] mbtype = "MBTRI" /\ dim = 1 /\ side \in 0..2 -> [subtype |-> "MBEDGE", idx |-> triE[side + 1]]
       [] OTHER -> none

\* ------------------------------------------------------ ExodusII file contents
\* A file is a record of its dimensions and variables:
\*   numDim, numNodes, coord[d][i], blocks[k] = [id (eb_prop1), elem_type (the
\*   attribute of connect<k>), conn (connect<k>, one row per element)],
\*   nodesets[i] = [id (ns_prop1), nodes (node_ns), df (dist_fact_ns)],
\*   sidesets[i] = [id (ss_prop1), elems (elem_ss), sides (side_ss), df
\*   (dist_fact_ss)], elem_map, node_num_map (<<>> when the variable is
\*   absent), num_qa_rec.
Blk(id, et, conn) == [id |-> id, elem_type |-> et, conn |-> conn]
NSet(id, nodes, df) == [id |-> id, nodes |-> nodes, df |-> df]
SSet(id, elems, sides, df) == [id |-> id, elems |-> elems, sides |-> sides, df |-> df]

Coord(nd, nn) == [d \in 1..nd |-> [i \in 1..nn |-> 10 * d + i]]

\* two quads sharing the edge (2,5), one block each, 2D
FileQuads ==
  [name |-> "quads", numDim |-> 2, numNodes |-> 6, coord |-> Coord(2, 6),
   blocks |-> << Blk(10, "QUAD4", << <<1,2,5,4>> >>), Blk(20, "QUAD4", << <<2,3,6,5>> >>) >>,
   nodesets |-> << NSet(7, <<1,2,3>>, <<71,72,73>>) >>,
   sidesets |-> << SSet(100, <<1,2>>, <<2,4>>, <<101,102,103,104>>) >>,
   elem_map |-> <<501,502>>, node_num_map |-> <<11,12,13,14,15,16>>, num_qa_rec |-> 1]

\* one shell listed with sides 1, 2 and 2 again, 3D
FileShell ==
  [name |-> "shell", numDim |-> 3, numNodes |-> 4, coord |-> Coord(3, 4),
   blocks |-> << Blk(30, "SHELL4", << <<1,2,3,4>> >>) >>,
   nodesets |-> << NSet(8, <<1,3>>, <<>>) >>,
   sidesets |-> << SSet(200, <<1,1,1>>, <<1,2,2>>, <<201,202,203,204,205,206,207,208,209,210,211,212>>) >>,
   elem_map |-> <<601>>, node_num_map |-> <<>>, num_qa_rec |-> 0]

\* one shell; its side set carries id 0, the default value of the neumann tag
FileShellZero ==
  [name |-> "shell0", numDim |-> 3, numNodes |-> 4, coord |-> Coord(3, 4),
   blocks |-> << Blk(31, "SHELL4", << <<1,2,3,4>> >>) >>,
   nodesets |-> << >>,
   sidesets |-> << SSet(0, <<1,1>>, <<1,2>>, <<>>) >>,
   elem_map |-> <<611>>, node_num_map |-> <<21,22,23,24>>, num_qa_rec |-> 0]

\* two tets sharing the face (1,2,3), one block each, 3D
FileTets ==
  [name |-> "tets", numDim |-> 3, numNodes |-> 5, coord |-> Coord(3, 5),
   blocks |-> << Blk(40, "TETRA4", << <<1,2,3,4>> >>), Blk(41, "TETRA4", << <<1,3,2,5>> >>) >>,
   nodesets |-> << NSet(9, <<4,5>>, <<91,92>>) >>,
   sidesets |-> << SSet(300, <<1,2>>, <<4,4>>, <<301,302,303,304,305,306>>) >>,
   elem_map |-> <<701,702>>, node_num_map |-> <<31,32,33,34,35>>, num_qa_rec |-> 0]

\* one hex with a side set on its side 3, 3D
FileHex ==
  [name |-> "hex", numDim |-> 3, numNodes |-> 8, coord |-> Coord(3, 8),
   blocks |-> << Blk(50, "HEX8", << <<1,2,3,4,5,6,7,8>> >>) >>,
   nodesets |-> << >>,
   sidesets |-> << SSet(400, <<1>>, <<3>>, <<25,25,25,25>>) >>,
   elem_map |-> <<801>>, node_num_map |-> <<41,42,43,44,45,46,47,48>>, num_qa_rec |-> 1]

\* a block of two triangles and a block of one, 2D; the side set lists the
\* edge (1,3) from both triangles of the first block
FileTris ==
  [name |-> "tris", numDim |-> 2, numNodes |-> 5, coord |-> Coord(2, 5),
   blocks |-> << Blk(60, "TRI3", << <<1,2,3>>, <<1,3,4>> >>), Blk(61, "TRI3", << <<1,4,5>> >>) >>,
   nodesets |-> << NSet(5, <<2,5>>, <<51,52>>) >>,
   sidesets |-> << SSet(500, <<1,2,3>>, <<3,1,2>>, <<511,512,513,514,515,516>>) >>,
   elem_map |-> <<901,902,903>>, node_num_map |-> <<>>, num_qa_rec |-> 0]

\* one triangle and a node (4) that no block uses, 2D; node set 3 holds a used
\* and the unused node, node set 4 only the unused one
FileOrphan ==
  [name |-> "orphan", numDim |-> 2, numNodes |-> 4, coord |-> Coord(2, 4),
   blocks |-> << Blk(70, "TRI3", << <<1,2,3>> >>) >>,
   nodesets |-> << NSet(3, <<3,4>>, <<81,82>>), NSet(4, <<4>>, <<83>>) >>,
   sidesets |-> << >>,
   elem_map |-> <<951>>, node_num_map |-> <<61,62,63,64>>, num_qa_rec |-> 0]

\* a quad shell collapsed to the triangle (1,2,3) and a hex with the collapsed
\* edge 1-1 whose side 1 runs over the same vertices, (1,1,2,3), 3D; the side
\* set lists that hex side and the shell's edge (1,2)
FileWedge ==
  [name |-> "wedge", numDim |-> 3, numNodes |-> 6, coord |-> Coord(3, 6),
   blocks |-> << Blk(80, "SHELL4", << <<1,2,3,1>> >>),
                 Blk(81, "HEX8", << <<1,1,4,4,3,2,5,6>> >>) >>,
   nodesets |-> << >>,
   sidesets |-> << SSet(600, <<2,1>>, <<1,3>>, <<601,602,603,604,605,606>>) >>,
   elem_map |-> <<961,962>>, node_num_map |-> <<71,72,73,74,75,76>>, num_qa_rec |-> 0]

\* one triangle in 3D; two node sets carry the same id and two side sets carry
\* the same id: the triangle itself (side 1) and its edge (1,2) (side 3)
FileTwin ==
  [name |-> "twin", numDim |-> 3, numNodes |-> 3, coord |-> Coord(3, 3),
   blocks |-> << Blk(90, "TRI3", << <<1,2,3>> >>) >>,
   nodesets |-> << NSet(6, <<1,2>>, <<91,92>>), NSet(6, <<2,3>>, <<93,94>>) >>,
   sidesets |-> << SSet(700, <<1>>, <<1>>, <<701,702,703>>),
                   SSet(700, <<1>>, <<3>>, <<704,705>>) >>,
   elem_map |-> <<971>>, node_num_map |-> <<81,82,83>>, num_qa_rec |-> 0]

\* FileQuads with the first connectivity entry of block 1 replaced by c
FileBadConn(c) ==
  [FileQuads EXCEPT !.name = "badconn", !.blocks[1].conn[1][1] = c]

\* connectivity entries outside 1..numNodes tried in place of a valid one
BadConnValues == {0 - 1, 0, 7}

\* one triangle, 2D; the side set lists one edge and the file's num_df_ss
\* dimension gives it a single distribution factor
FileShortFactors ==
  [name |-> "short", numDim |-> 2, numNodes |-> 3, coord |-> Coord(2, 3),
   blocks |-> << Blk(95, "TRI3", << <<1,2,3>> >>) >>,
   nodesets |-> << >>,
   sidesets |-> << SSet(800, <<1>>, <<1>>, <<801>>) >>,
   elem_map |-> <<981>>, node_num_map |-> <<>>, num_qa_rec |-> 0]

Files ==
  {FileQuads, FileShell, FileShellZero, FileTets, FileHex, FileTris, FileOrphan,
   FileWedge, FileTwin, FileShortFactors}
    \cup {FileBadConn(c) : c \in BadConnValues}

\* the largest number of elements in a block of the catalogue
MaxBlockElements == 2

NumElements(f) == SumSeq([k \in 1..Len(f.blocks) |-> Len(f.blocks[k].conn)])

\* ------------------------------------------------------------------ state
VARIABLES
  file,                 \* the ExodusII file the calls read
  verts,                \* database: vertices, verts[h] = [coord, gid]
  ents,                 \* database: elements and sides, ents[h] = [type, conn, gid, alive]
  sets,                 \* database: meshsets, sets[h] = [flags, members, tags...]
  ncFile,               \* reader: the ncFile pointer, "NULL" or "fileObject"
  fileOpen,             \* whether the call's local NcFile object is alive (file open)
  hdr,                  \* reader: the number..._loading fields
  vertexOffset,         \* reader
  blocksLoading,        \* reader: std::vector<ReadBlockData>
  nodesInLoadedBlocks,  \* reader: entry c+1 is the flag of exodus node index c
  initRange,            \* reader: the entities present when the load began
  pc,                   \* position inside the running call, "idle" between calls
  calls,                \* number of calls begun
  args,                 \* arguments of the running (or last) call
  ret,                  \* return code of the last finished call
  stages,               \* stages run by the running (or last) call, with their codes
  upd,                  \* locals of update, kept after it returns
  id_array              \* the id_array argument of read_tag_values

vars == << file, verts, ents, sets, ncFile, fileOpen, hdr, vertexOffset,
           blocksLoading, nodesInLoadedBlocks, initRange, pc, calls, args, ret,
           stages, upd, id_array >>

dbVars == << verts, ents, sets >>
readerVars == << hdr, vertexOffset, blocksLoading, nodesInLoadedBlocks, initRange >>

\* handles of the three entity kinds
VH(i) == << "V", i >>
EH(i) == << "E", i >>
SH(i) == << "S", i >>

\* the meshset the caller passes as file_set
FileSetHandle == 1

\* Interface::create_meshset: a new meshset record
NewSet(flags) ==
  [flags |-> flags, members |-> <<>>, mat |-> NoTag, dir |-> NoTag, neu |-> NoTag,
   gid |-> NoTag, sense |-> NoTag, df |-> NoTag, mid |-> NoTag, qa |-> NoTag]

\* Interface::add_entities: an ordered meshset is a list and keeps duplicates,
\* a MESHSET_SET meshset holds each entity once
RECURSIVE AddMembers(_, _, _)
AddMembers(flags, members, new) ==
  IF new = <<>> THEN members
  ELSE AddMembers(flags,
                  IF flags = "ORDERED" \/ Head(new) \notin Range(members)
                    THEN Append(members, Head(new)) ELSE members,
                  Tail(new))

AddEntities(ss, h, new) ==
  [ss EXCEPT ![h].members = AddMembers(ss[h].flags, ss[h].members, new)]

\* Interface::tag_get_data of an integer tag created with default value 0
\* (the constructor creates the set tags and the global id tag that way)
TagGet(v) == IF v = NoTag THEN 0 ELSE v[1]

\* ReadNCDF::reset
ResetHdr ==
  [numDim |-> 0, numNodes |-> 0, numElems |-> 0, numBlocks |-> 0,
   numNodeSets |-> 0, numSideSets |-> 0]

\* update's locals before update runs; before_alive and before_fs record the
\* live elements and the file set's members when update began
NoUpd ==
  [tokens |-> <<>>, time_step |-> 0, ptr |-> <<>>, matched |-> {},
   found |-> 0, lost |-> 0, death |-> <<>>, report |-> <<>>, deleted |-> <<>>,
   before_alive |-> {}, before_fs |-> <<>>]

\* a null subset_list pointer
NullSubset == [null |-> TRUE, tag_list |-> <<>>, num_parts |-> 0]

\* a null blocks_to_load pointer, and a pointer to the ints vals
NullInts == [null |-> TRUE, vals |-> <<>>]
IntsAt(vals) == [null |-> FALSE, vals |-> vals]

\* ReadNCDF::ReadNCDF: reset(), ncFile = NULL; the database holds the caller's
\* file set and nothing else
Init ==
  /\ file \in Files
  /\ verts = <<>>
  /\ ents = <<>>
  /\ sets = << NewSet("SET") >>
  /\ ncFile = "NULL"
  /\ fileOpen = FALSE
  /\ hdr = ResetHdr
  /\ vertexOffset = 0
  /\ blocksLoading = <<>>
  /\ nodesInLoadedBlocks = <<>>
  /\ initRange = [nv |-> 0, ne |-> 0, ns |-> 0]
  /\ pc = "idle"
  /\ calls = 0
  /\ args = [op |-> "none", subset |-> NullSubset, tdata |-> <<>>,
             file_set |-> FALSE, file_id_tag |-> FALSE,
             blocks_to_load |-> NullInts, num_blocks |-> 0, tag_name |-> ""]
  /\ ret = "none"
  /\ stages = <<>>
  /\ upd = NoUpd
  /\ id_array = <<>>

\* ----------------------------------------------------------- call arguments
\* ReaderIface::SubsetList values tried besides the null pointer
TagEntry(name, values) == [tag_name |-> name, tag_values |-> values]

SubsetLists(f) ==
  LET first == f.blocks[1].id
      last == f.blocks[Len(f.blocks)].id
  IN { [null |-> FALSE, tag_list |-> << TagEntry(MATERIAL_SET_TAG_NAME, << first >>) >>, num_parts |-> 0],
       [null |-> FALSE, tag_list |-> << TagEntry(MATERIAL_SET_TAG_NAME, << last >>) >>, num_parts |-> 0],
       [null |-> FALSE, tag_list |-> << TagEntry(DIRICHLET_SET_TAG_NAME, << last >>) >>, num_parts |-> 0],
       [null |-> FALSE, tag_list |-> << TagEntry(DIRICHLET_SET_TAG_NAME, << 99, first >>) >>, num_parts |-> 0],
       [null |-> FALSE, tag_list |-> << TagEntry(DIRICHLET_SET_TAG_NAME, << last >>) >>, num_parts |-> 1],
       [null |-> FALSE, tag_list |-> << TagEntry(MATERIAL_SET_TAG_NAME, << first >>),
                        TagEntry(DIRICHLET_SET_TAG_NAME, << 7 >>) >>, num_parts |-> 0] }

\* a call returns: the local NcFile object goes out of scope and closes the file
Return(code) ==
  /\ ret' = code
  /\ pc' = "idle"
  /\ fileOpen' = FALSE

\* load_file's test after a stage: only MB_FAILURE ends the call
AfterStage(name, status, next) ==
  /\ stages' = Append(stages, [stage |-> name, status |-> status])
  /\ IF status = MB_FAILURE
       THEN Return(status)
       ELSE pc' = next /\ UNCHANGED << ret, fileOpen >>

\* ------------------------------------------------------------ load_file entry
\* load_file's handling of subset_list: the code it returns at once, or
\* MB_SUCCESS with blocks_to_load and num_blocks
load_file_subset(subset) ==
  IF subset.null
    THEN [code |-> MB_SUCCESS, blocks_to_load |-> NullInts, num_blocks |-> 0]
  ELSE IF Len(subset.tag_list) > 1
          \/ subset.tag_list[1].tag_name = MATERIAL_SET_TAG_NAME
    THEN [code |-> MB_UNSUPPORTED_OPERATION, blocks_to_load |-> NullInts, num_blocks |-> 0]
  ELSE IF subset.num_parts # 0
    THEN [code |-> MB_UNSUPPORTED_OPERATION, blocks_to_load |-> NullInts, num_blocks |-> 0]
  ELSE [code |-> MB_SUCCESS,
        blocks_to_load |-> IntsAt(subset.tag_list[1].tag_values),
        num_blocks |-> Len(subset.tag_list[1].tag_values)]

\* a tdata option string is the sequence of its characters
Directive(var_name, rest) == var_name \o rest

\* the tdata option strings tried (<<>>: the option is absent or empty)
TdataChoices ==
  LET coord == << "c", "o", "o", "r", "d" >>
      set == << "s", "e", "t" >>
  IN { <<>>,
       Directive(coord, << ",", "1", "," >> \o set),
       Directive(coord, << ",", "2", "," >> \o set),
       Directive(coord, << ",", "3", "," >> \o set),
       Directive(coord, << ",", "0", "," >> \o set),
       Directive(coord, << ",", "x", "," >> \o set),
       Directive(coord, << "," >> \o set),
       Directive(coord, << ",", "," >> \o set),
       Directive(coord, <<>>),
       Directive(coord, << ",", "1", ",", "a", "d", "d" >>),
       Directive(coord, << ",", "1", ",", "f", "o", "o" >>),
       Directive(<< "C", "O", "O", "R", "D" >>, << ",", "1", "," >> \o set),
       Directive(<< "C", "o", "o", "r", "d" >>, << ",", "1", "," >> \o set),
       Directive(<< "t", "e", "m", "p" >>, << ",", "1", "," >> \o set) }

\* load_file with the test of the tdata string inverted: an empty string goes
\* to update and a directive to the stages of a full load
LoadFileBeginInverted ==
  /\ pc = "idle"
  /\ calls < MaxCalls
  /\ \E subset \in {NullSubset} \cup SubsetLists(file), tdata \in TdataChoices,
        fs \in BOOLEAN, fid \in BOOLEAN, valid \in BOOLEAN :
       LET sub == load_file_subset(subset) IN
       /\ (tdata # <<>> => fs)
       \* file_id_tag is read by read_nodes and read_elements only
       /\ (fid => sub.code = MB_SUCCESS /\ tdata = <<>> /\ valid)
       /\ calls' = calls + 1
       /\ args' = [op |-> "load_file", subset |-> subset, tdata |-> tdata,
                   file_set |-> fs, file_id_tag |-> fid,
                   blocks_to_load |-> sub.blocks_to_load,
                   num_blocks |-> sub.num_blocks, tag_name |-> ""]
       /\ stages' = <<>>
       /\ upd' = NoUpd
       /\ IF sub.code # MB_SUCCESS
            THEN /\ Return(sub.code)
                 /\ UNCHANGED << ncFile, readerVars >>
          ELSE IF tdata = <<>>
            THEN /\ pc' = "update"
                 /\ UNCHANGED << ret, fileOpen, ncFile, readerVars >>
          ELSE /\ hdr' = ResetHdr
               /\ vertexOffset' = 0
               /\ blocksLoading' = <<>>
               /\ nodesInLoadedBlocks' = <<>>
               /\ UNCHANGED initRange
               /\ ncFile' = "fileObject"
               /\ IF valid
                    THEN pc' = "header" /\ fileOpen' = TRUE /\ UNCHANGED ret
                    ELSE Return(MB_FILE_DOES_NOT_EXIST)
  /\ UNCHANGED << file, id_array, dbVars >>

\* load_file up to the first stage: subset check, dispatch to update when the
\* tdata option is set, else reset() and open the file
LoadFileBegin ==
  /\ pc = "idle"
  /\ calls < MaxCalls
  /\ \E subset \in {NullSubset} \cup SubsetLists(file), tdata \in TdataChoices,
        fs \in BOOLEAN, fid \in BOOLEAN, valid \in BOOLEAN :
       LET sub == load_file_subset(subset) IN
       /\ (tdata # <<>> => fs)
       \* file_id_tag is read by read_nodes and read_elements only
       /\ (fid => sub.code = MB_SUCCESS /\ tdata = <<>> /\ valid)
       /\ calls' = calls + 1
       /\ args' = [op |-> "load_file", subset |-> subset, tdata |-> tdata,
                   file_set |-> fs, file_id_tag |-> fid,
                   blocks_to_load |-> sub.blocks_to_load,
                   num_blocks |-> sub.num_blocks, tag_name |-> ""]
       /\ stages' = <<>>
       /\ upd' = NoUpd
       /\ IF sub.code # MB_SUCCESS
            THEN /\ Return(sub.code)
                 /\ UNCHANGED << ncFile, readerVars >>
          ELSE IF tdata # <<>>
            THEN /\ pc' = "update"
                 /\ UNCHANGED << ret, fileOpen, ncFile, readerVars >>
          ELSE /\ hdr' = ResetHdr
               /\ vertexOffset' = 0
               /\ blocksLoading' = <<>>
               /\ nodesInLoadedBlocks' = <<>>
               /\ UNCHANGED initRange
               /\ ncFile' = "fileObject"
               /\ IF valid
                    THEN pc' = "header" /\ fileOpen' = TRUE /\ UNCHANGED ret
                    ELSE Return(MB_FILE_DOES_NOT_EXIST)
  /\ UNCHANGED << file, id_array, dbVars >>

\* ------------------------------------------------------------ stage 1: header
\* read_exodus_header: the dimensions of the file; io = FALSE stands for a
\* missing or malformed attribute, found before any dimension is read
read_exodus_header(io) ==
  IF ~io THEN [status |-> MB_FAILURE, hdr |-> hdr]
  ELSE [status |-> MB_SUCCESS,
        hdr |-> [numDim |-> file.numDim, numNodes |-> file.numNodes,
                 numElems |-> NumElements(file), numBlocks |-> Len(file.blocks),
                 numNodeSets |-> Len(file.nodesets),
                 numSideSets |-> Len(file.sidesets)]]

LoadHeader ==
  /\ pc = "header"
  /\ \E io \in BOOLEAN :
       LET r == read_exodus_header(io) IN
       /\ hdr' = r.hdr
       \* load_file records the entities present before it creates any
       /\ initRange' = IF r.status = MB_FAILURE THEN initRange
                       ELSE [nv |-> Len(verts), ne |-> Len(ents), ns |-> Len(sets)]
       /\ AfterStage("header", r.status, "nodes")
  /\ UNCHANGED << file, id_array, dbVars, ncFile, vertexOffset, blocksLoading,
                  nodesInLoadedBlocks, calls, args, upd >>

\* ------------------------------------------------------------- stage 2: nodes
\* ReadUtilIface::assign_ids(tag, range, start): the entities of the range
\* take start, start + 1, ... in handle order
assign_ids(n, start) == [i \in 1..n |-> start + i - 1]

\* read_nodes: reserves numberNodes_loading vertices, records vertexOffset and
\* reads the coordinates (z = 0 in a 2D file); io = FALSE: the coord variable
\* cannot be read, after the vertices were reserved; when the caller gave a
\* file_id_tag the new vertices take the ids vertexOffset, vertexOffset + 1, ...
\* on it
read_nodes(io) ==
  LET n == hdr.numNodes
      node_handle == Len(verts) + 1
      xyz(i) == << file.coord[1][i], file.coord[2][i],
                   IF hdr.numDim = 2 THEN 0 ELSE file.coord[3][i] >>
      ids == assign_ids(n, node_handle - MB_START_ID)
      new == [i \in 1..n |-> [coord |-> IF io THEN xyz(i) ELSE <<0, 0, 0>>,
                               gid |-> NoTag,
                               fid |-> IF io /\ args.file_id_tag
                                         THEN << ids[i] >> ELSE NoTag]]
  IN [status |-> IF io THEN MB_SUCCESS ELSE MB_FAILURE,
      verts |-> verts \o new,
      vertexOffset |-> node_handle - MB_START_ID]

LoadNodes ==
  /\ pc = "nodes"
  /\ \E io \in BOOLEAN :
       LET r == read_nodes(io) IN
       /\ verts' = r.verts
       /\ vertexOffset' = r.vertexOffset
       /\ AfterStage("nodes", r.status, "blockHeaders")
  /\ UNCHANGED << file, id_array, ents, sets, ncFile, hdr, blocksLoading,
                  nodesInLoadedBlocks, initRange, calls, args, upd >>

\* ----------------------------------------------------- stage 3: block headers
\* values an int read past the end of the caller's blocks_to_load array can have
GarbageInts(f) == {0, f.blocks[1].id}

\* the block ids of the file in file order (eb_prop1)
BlockIds(f) == [k \in 1..Len(f.blocks) |-> f.blocks[k].id]

\* std::vector<int> new_blocks(blocks_to_load, blocks_to_load + numberElementBlocks_loading):
\* the first n ints at blocks_to_load, which is block_ids itself when the
\* caller's list is null or empty; slots past the caller's num_blocks entries
\* are read out of bounds (garbage g)
NewBlocks(f, blocks_to_load, num_blocks, g) ==
  LET n == Len(f.blocks)
      src == IF blocks_to_load.null \/ num_blocks = 0
               THEN BlockIds(f) ELSE blocks_to_load.vals
  IN [k \in 1..n |-> IF k <= Len(src) THEN src[k] ELSE g[k]]

\* the test  std::find(new_blocks.begin(), new_blocks.end(), id) != block_ids.end():
\* the iterator found points into new_blocks, the one it is compared with into
\* block_ids.  With block_ids stored at addresses 0..n-1 and new_blocks at
\* n+gap.., the two are equal only when they are the same address.
ReadingIn(new_blocks, id, n, gap) ==
  LET pos == Find(new_blocks, id)
      found_addr == n + gap + (IF pos = 0 THEN n ELSE pos - 1)
      block_ids_end == n
  IN found_addr # block_ids_end

RECURSIVE BlockRecords(_, _, _, _, _)
BlockRecords(f, k, exodus_id, new_blocks, gap) ==
  IF k > Len(f.blocks) THEN <<>>
  ELSE << [elemType |-> EXOII_MAX_ELEM_TYPE,
           blockId |-> f.blocks[k].id,
           startExoId |-> exodus_id,
           numElements |-> Len(f.blocks[k].conn),
           reading_in |-> ReadingIn(new_blocks, f.blocks[k].id, Len(f.blocks), gap),
           startMBId |-> 0] >>
       \o BlockRecords(f, k + 1, exodus_id + Len(f.blocks[k].conn), new_blocks, gap)

\* read_block_headers: one record per block of the file, pushed onto
\* blocksLoading; io = FALSE: eb_prop1 cannot be read
read_block_headers(blocks_to_load, num_blocks, gap, g, io) ==
  IF ~io THEN [status |-> MB_FAILURE, blocksLoading |-> blocksLoading]
  ELSE [status |-> MB_SUCCESS,
        blocksLoading |-> blocksLoading \o
           BlockRecords(file, 1, 1, NewBlocks(file, blocks_to_load, num_blocks, g), gap)]

\* the out-of-bounds slots of new_blocks
OobSlots(f, blocks_to_load, num_blocks) ==
  IF blocks_to_load.null \/ num_blocks = 0 THEN {}
  ELSE (Len(blocks_to_load.vals) + 1)..Len(f.blocks)

LoadBlockHeaders ==
  /\ pc = "blockHeaders"
  /\ \E io \in BOOLEAN, gap \in 0..MaxGap,
        g \in [OobSlots(file, args.blocks_to_load, args.num_blocks) -> GarbageInts(file)] :
       LET r == read_block_headers(args.blocks_to_load, args.num_blocks, gap, g, io) IN
       /\ blocksLoading' = r.blocksLoading
       /\ AfterStage("blockHeaders", r.status, "elements")
  /\ UNCHANGED << file, id_array, dbVars, ncFile, hdr, vertexOffset, nodesInLoadedBlocks,
                  initRange, calls, args, upd >>

\* --------------------------------------------------------- stage 4: elements
\* the conversion pass of read_elements over one block's connectivity buffer,
\* from the last entry to the first: an entry c with (unsigned)c >=
\* nodesInLoadedBlocks.size() stops the pass; else the node is marked and the
\* entry becomes the vertex handle c + vertexOffset
RECURSIVE ConvertFrom(_, _, _, _)
ConvertFrom(buf, i, touched, off) ==
  IF i = 0 THEN [ok |-> TRUE, conn |-> buf, touched |-> touched]
  ELSE IF ToUnsigned(buf[i]) >= Len(touched)
    THEN [ok |-> FALSE, conn |-> buf, touched |-> touched]
  ELSE ConvertFrom([buf EXCEPT ![i] = buf[i] + off], i - 1,
                   [touched EXCEPT ![buf[i] + 1] = 1], off)

\* sizeof(EntityHandle) / sizeof(int) on the builds considered
HandleWidths == {1, 2}

\* conn[i] = h on the memory shared by conn (handles of width ints each) and
\* tmp_ptr (ints): the ints width*i .. width*i + width - 1 (0-based) take the
\* words of h, lowest first; mem is the sequence of ints
WriteHandle(mem, i, width, h) ==
  [s \in DOMAIN mem |->
     IF s \in (width * i + 1)..(width * i + width)
       THEN (h \div (2 ^ (IntBits * (s - width * i - 1)))) % (2 ^ IntBits)
       ELSE mem[s]]

\* conn[k] (0-based) read back from that memory
HandleAt(mem, k, width) ==
  SumSeq([j \in 1..width |-> mem[width * k + j] * (2 ^ (IntBits * (j - 1)))])

\* the conversion pass run from the first entry to the last, up to entry last
RECURSIVE ConvertForwardFrom(_, _, _, _, _, _)
ConvertForwardFrom(mem, i, last, width, size, off) ==
  IF i > last THEN [ok |-> TRUE, mem |-> mem]
  ELSE IF ToUnsigned(mem[i + 1]) >= size THEN [ok |-> FALSE, mem |-> mem]
  ELSE ConvertForwardFrom(WriteHandle(mem, i, width, mem[i + 1] + off),
                          i + 1, last, width, size, off)

ConvertForward(mem, i, width, size, off) ==
  ConvertForwardFrom(mem, 0, i, width, size, off)

\* the conversion pass of read_elements on the memory itself, from entry i
\* (0-based) down to entry 0: tmp_ptr[i] is read, checked against
\* nodesInLoadedBlocks.size() and conn[i] is written over the same memory
RECURSIVE ConvertInPlace(_, _, _, _, _)
ConvertInPlace(mem, i, width, size, off) ==
  IF i < 0 THEN [ok |-> TRUE, mem |-> mem]
  ELSE IF ToUnsigned(mem[i + 1]) >= size THEN [ok |-> FALSE, mem |-> mem]
  ELSE ConvertInPlace(WriteHandle(mem, i, width, mem[i + 1] + off),
                      i - 1, width, size, off)

\* row j (1-based) of a flat connectivity buffer with vpe entries per element
Row(buf, j, vpe) == [k \in 1..vpe |-> buf[(j - 1) * vpe + k]]

\* read_elements on block record k; st = [ents, sets, blocks, touched, status]
ReadElemBlock(st, k, off) ==
  LET b == st.blocks[k]
      et == static_element_name_to_type(file.blocks[k].elem_type)
      vpe == VerticesPerElement(et)
      mb_type == ExoIIElementMBEntity(et)
      startMB == Len(st.ents) + 1
      cv == ConvertFrom(Flatten(file.blocks[k].conn), b.numElements * vpe,
                        st.touched, off)
      ids == assign_ids(b.numElements, b.startExoId)
      newEnts == [j \in 1..b.numElements |->
                    [type |-> mb_type, conn |-> Row(cv.conn, j, vpe),
                     gid |-> NoTag,
                     fid |-> IF cv.ok /\ args.file_id_tag
                               THEN << ids[j] >> ELSE NoTag,
                     alive |-> TRUE]]
      ms == [NewSet("SET") EXCEPT
               !.members = [j \in 1..b.numElements |-> EH(startMB + j - 1)],
               !.mid = <<0, 0, 0, 0>>]
      tagged == [ms EXCEPT !.mat = << b.blockId >>, !.gid = << b.blockId >>]
  IN IF st.status # MB_SUCCESS \/ ~b.reading_in THEN st
     ELSE [ents |-> st.ents \o newEnts,
           sets |-> Append(st.sets, IF cv.ok THEN tagged ELSE ms),
           blocks |-> [st.blocks EXCEPT ![k].elemType = et, ![k].startMBId = startMB],
           touched |-> cv.touched,
           status |-> IF cv.ok THEN MB_SUCCESS ELSE MB_FAILURE]

RECURSIVE ReadElemBlocks(_, _, _)
ReadElemBlocks(st, k, off) ==
  IF k > Len(st.blocks) THEN st
  ELSE ReadElemBlocks(ReadElemBlock(st, k, off), k + 1, off)

\* read_elements: nodesInLoadedBlocks is resized to numberNodes_loading + 1 and
\* zeroed, then every block that is being read in is materialized; io = FALSE:
\* the connect variable of the first such block cannot be read
read_elements(io) ==
  LET st0 == [ents |-> ents, sets |-> sets, blocks |-> blocksLoading,
              touched |-> [c \in 1..(hdr.numNodes + 1) |-> 0],
              status |-> MB_SUCCESS]
      selected == \E k \in DOMAIN blocksLoading : blocksLoading[k].reading_in
  IN IF ~io /\ selected THEN [st0 EXCEPT !.status = MB_FAILURE]
     ELSE ReadElemBlocks(st0, 1, vertexOffset)

LoadElements ==
  /\ pc = "elements"
  /\ \E io \in BOOLEAN :
       LET r == read_elements(io) IN
       /\ ents' = r.ents
       /\ sets' = r.sets
       /\ blocksLoading' = r.blocks
       /\ nodesInLoadedBlocks' = r.touched
       /\ AfterStage("elements", r.status, "globalIds")
  /\ UNCHANGED << file, id_array, verts, ncFile, hdr, vertexOffset, initRange, calls,
                  args, upd >>

\* ------------------------------------------------------- stage 5: global ids
\* the block loop of read_global_ids: each block being read in takes the next
\* numElements entries of elem_map, from cursor ptr_pos (0-based)
RECURSIVE GlobalIdBlocks(_, _, _, _)
GlobalIdBlocks(es, blocks, k, ptr_pos) ==
  IF k > Len(blocks) THEN es
  ELSE LET b == blocks[k] IN
       IF ~b.reading_in THEN GlobalIdBlocks(es, blocks, k + 1, ptr_pos)
       ELSE GlobalIdBlocks(
              [h \in DOMAIN es |->
                 IF h >= b.startMBId /\ h < b.startMBId + b.numElements
                   THEN [es[h] EXCEPT !.gid = << file.elem_map[ptr_pos + (h - b.startMBId) + 1] >>]
                   ELSE es[h]],
              blocks, k + 1, ptr_pos + b.numElements)

\* the node map part of read_global_ids: when node_num_map exists, the vertices
\* MB_START_ID+vertexOffset .. +numberNodes_loading-1 take its entries
NodeMapIds(vs) ==
  IF file.node_num_map = <<>> THEN vs
  ELSE [h \in DOMAIN vs |->
          IF h >= MB_START_ID + vertexOffset
             /\ h <= MB_START_ID + vertexOffset + hdr.numNodes - 1
            THEN [vs[h] EXCEPT !.gid = << file.node_num_map[h - vertexOffset - MB_START_ID + 1] >>]
            ELSE vs[h]]

\* read_global_ids; out is what the collaborators do: MB_SUCCESS (all reads and
\* tag writes succeed), MB_FAILURE (elem_map cannot be read), or another code
\* returned by tag_set_data on the first block being read in, which
\* read_global_ids returns as it is
read_global_ids(out) ==
  LET selected == \E k \in DOMAIN blocksLoading : blocksLoading[k].reading_in
      zeroStart == \E k \in DOMAIN blocksLoading :
                      blocksLoading[k].reading_in /\ blocksLoading[k].startMBId = 0
  IN IF out = MB_FAILURE \/ zeroStart
       THEN [status |-> MB_FAILURE, ents |-> ents, verts |-> verts]
     ELSE IF out # MB_SUCCESS /\ selected
       THEN [status |-> out, ents |-> ents, verts |-> verts]
     ELSE [status |-> MB_SUCCESS,
           ents |-> GlobalIdBlocks(ents, blocksLoading, 1, 0),
           verts |-> NodeMapIds(verts)]

\* codes other than MB_SUCCESS and MB_FAILURE a database call hands back
DbErrors == { MB_ENTITY_NOT_FOUND }

LoadGlobalIds ==
  /\ pc = "globalIds"
  /\ \E out \in {MB_SUCCESS, MB_FAILURE} \cup DbErrors :
       LET r == read_global_ids(out) IN
       /\ ents' = r.ents
       /\ verts' = r.verts
       /\ AfterStage("globalIds", r.status, "nodesets")
  /\ UNCHANGED << file, id_array, sets, ncFile, readerVars, calls, args, upd >>

\* --------------------------------------------------------- stage 6: node sets
\* smallest element of a non-empty set of integers
Min(S) == CHOOSE x \in S : \A y \in S : x <= y

\* the search of read_nodesets for a meshset to append to: the entities created
\* since initRange are walked in handle order (vertices, elements, meshsets)
\* and the first whose dirichlet tag reads id is taken; an entity the tag was
\* never set on reads the tag's default value.  "none" when there is none.
FindNodeset(vs, es, ss, id) ==
  LET newV == {h \in DOMAIN vs : h > initRange.nv}
      newE == {h \in DOMAIN es : h > initRange.ne /\ es[h].alive}
      newS == {h \in DOMAIN ss : h > initRange.ns /\ TagGet(ss[h].dir) = id}
  IN IF id = TagGet(NoTag) /\ newV # {} THEN VH(Min(newV))
     ELSE IF id = TagGet(NoTag) /\ newE # {} THEN EH(Min(newE))
     ELSE IF newS # {} THEN SH(Min(newS))
     ELSE << "none", 0 >>

\* the node loop of read_nodesets without the nodesInLoadedBlocks test: every
\* node of the set that is not yet a member of the meshset found is taken
RECURSIVE NodesetNodesUnfiltered(_, _, _, _, _)
NodesetNodesUnfiltered(ns, j, found, existing, acc) ==
  IF j > Len(ns.nodes) THEN acc
  ELSE LET node_id == VH(ns.nodes[j] + vertexOffset)
           temp_df == IF j <= Len(ns.df) THEN ns.df[j] ELSE 0
           take == ~found \/ node_id \notin Range(existing)
       IN NodesetNodesUnfiltered(ns, j + 1, found, existing,
            IF take
              THEN [nodes |-> Append(acc.nodes, node_id),
                    df |-> IF Len(ns.df) # 0 THEN Append(acc.df, temp_df) ELSE acc.df]
              ELSE acc)

\* the node loop of read_nodesets: the nodes of the set that are marked in
\* nodesInLoadedBlocks and not yet members of the meshset found, with their
\* distribution factors; acc = [nodes, df]
RECURSIVE NodesetNodes(_, _, _, _, _)
NodesetNodes(ns, j, found, existing, acc) ==
  IF j > Len(ns.nodes) THEN acc
  ELSE LET node_id == VH(ns.nodes[j] + vertexOffset)
           temp_df == IF j <= Len(ns.df) THEN ns.df[j] ELSE 0
           take == nodesInLoadedBlocks[ns.nodes[j] + 1] = 1
                   /\ (~found \/ node_id \notin Range(existing))
       IN NodesetNodes(ns, j + 1, found, existing,
            IF take
              THEN [nodes |-> Append(acc.nodes, node_id),
                    df |-> IF Len(ns.df) # 0 THEN Append(acc.df, temp_df) ELSE acc.df]
              ELSE acc)

\* read_nodesets on node set i of the file; st = [sets, status]
ReadNodeset(st, i) ==
  LET ns == file.nodesets[i]
      ns_handle == FindNodeset(verts, ents, st.sets, ns.id)
      found == ns_handle[1] # "none"
      isSet == ns_handle[1] = "S"
      h == ns_handle[2]
      existing == IF isSet THEN st.sets[h].members ELSE <<>>
      got == NodesetNodes(ns, 1, found, existing, [nodes |-> <<>>, df |-> <<>>])
      created == [NewSet("ORDERED") EXCEPT
                    !.dir = << ns.id >>, !.gid = << ns.id >>,
                    !.df = IF got.df # <<>> THEN got.df ELSE NoTag,
                    !.members = got.nodes]
  IN IF st.status # MB_SUCCESS THEN st
     ELSE IF found /\ ~isSet THEN [st EXCEPT !.status = MB_FAILURE]
     ELSE IF got.nodes = <<>> THEN st
     ELSE IF ~found THEN [st EXCEPT !.sets = Append(st.sets, created)]
     ELSE IF got.df # <<>> /\ st.sets[h].df = NoTag
       THEN [st EXCEPT !.status = MB_FAILURE]
     ELSE [st EXCEPT
             !.sets = AddEntities(
                 IF got.df # <<>>
                   THEN [st.sets EXCEPT ![h].df = got.df \o st.sets[h].df]
                   ELSE st.sets,
                 h, got.nodes)]

RECURSIVE ReadNodesetsFrom(_, _)
ReadNodesetsFrom(st, i) ==
  IF i > hdr.numNodeSets THEN st
  ELSE ReadNodesetsFrom(ReadNodeset(st, i), i + 1)

\* read_nodesets; io = FALSE: ns_prop1 cannot be read
read_nodesets(io) ==
  IF hdr.numNodeSets = 0 THEN [sets |-> sets, status |-> MB_SUCCESS]
  ELSE IF ~io THEN [sets |-> sets, status |-> MB_FAILURE]
  ELSE ReadNodesetsFrom([sets |-> sets, status |-> MB_SUCCESS], 1)

LoadNodesets ==
  /\ pc = "nodesets"
  /\ \E io \in BOOLEAN :
       LET r == read_nodesets(io) IN
       /\ sets' = r.sets
       /\ AfterStage("nodesets", r.status, "sidesets")
  /\ UNCHANGED << file, id_array, verts, ents, ncFile, readerVars, calls, args, upd >>

\* --------------------------------------------------------- stage 7: side sets
\* find_side_element_type: the block whose id interval holds exodus_id.  For a
\* block that is not being read in, df_index is advanced by the width the
\* block's elemType selects and MB_FAILURE is returned.
\* the width by which find_side_element_type advances df_index for a block
\* that is not being read in, chosen by the block's elemType
SkippedFactors(t, side_id) ==
  IF InHexRange(t) THEN 4
  ELSE IF InTetraRange(t) THEN 3
  ELSE IF InQuadRange(t) THEN 2
  ELSE IF InShellRange(t) THEN (IF side_id = 1 \/ side_id = 2 THEN 4 ELSE 2)
  ELSE IF InTriRange(t) THEN 3
  ELSE 0

\* find_side_element_type on the block record k that holds the element
FoundSideBlock(blocks, k, df_index, side_id) ==
  IF ~blocks[k].reading_in
    THEN [status |-> MB_FAILURE, elem_type |-> blocks[k].elemType, k |-> k,
          df_index |-> df_index + SkippedFactors(blocks[k].elemType, side_id)]
    ELSE [status |-> MB_SUCCESS, elem_type |-> blocks[k].elemType, k |-> k,
          df_index |-> df_index]

find_side_element_type(blocks, exodus_id, df_index, side_id) ==
  LET hits == {k \in DOMAIN blocks :
                 exodus_id >= blocks[k].startExoId
                 /\ exodus_id < blocks[k].startExoId + blocks[k].numElements}
  IN IF hits = {}
       THEN [status |-> MB_FAILURE, elem_type |-> EXOII_MAX_ELEM_TYPE,
             k |-> 0, df_index |-> df_index]
       ELSE FoundSideBlock(blocks, Min(hits), df_index, side_id)

\* std::rotate(c.begin(), c.begin() + (pos-1), c.end())
Rotate(c, pos) ==
  [j \in 1..Len(c) |-> c[((pos - 1 + j - 1) % Len(c)) + 1]]

\* the comparison of create_sideset_element between the wanted connectivity
\* and a candidate rotated to start with the wanted first vertex: equal
\* forwards or backwards
RotatedMatches(connectivity, r, n) ==
  \/ \A j \in 2..n : connectivity[j] = r[j]
  \/ \A j \in 2..n : connectivity[j] = r[n - j + 2]

\* the match test of create_sideset_element: same length, the first wanted
\* vertex occurs (at pos), and the rotated candidate matches
ConnMatchesAt(connectivity, match_conn, pos) ==
  /\ Len(match_conn) = Len(connectivity)
  /\ pos # 0
  /\ RotatedMatches(connectivity, Rotate(match_conn, pos), Len(connectivity))

ConnMatches(connectivity, match_conn) ==
  ConnMatchesAt(connectivity, match_conn, Find(match_conn, connectivity[1]))

\* get_adjacencies(&connectivity[0], 1, to_dim, false, ...): the live entities
\* of dimension to_dim that use the vertex
AdjacentOfDim(es, v, to_dim) ==
  {h \in DOMAIN es : es[h].alive /\ Dimension(es[h].type) = to_dim
                     /\ v \in Range(es[h].conn)}

\* the end of create_sideset_element: the first entity that matched, else a
\* new entity of the given type and connectivity
ReuseOrCreate(es, connectivity, type, hit) ==
  IF hit # {}
    THEN [ents |-> es, handle |-> Min(hit)]
    ELSE [ents |-> Append(es, [type |-> type, conn |-> connectivity,
                               gid |-> NoTag, fid |-> NoTag, alive |-> TRUE]),
          handle |-> Len(es) + 1]

\* create_sideset_element
create_sideset_element(es, connectivity, type) ==
  ReuseOrCreate(es, connectivity, type,
                {h \in AdjacentOfDim(es, connectivity[1], Dimension(type)) :
                   ConnMatches(connectivity, es[h].conn)})

\* the value read at temp_dist_factor_vector[idx] (0-based); a read past the
\* end of the vector yields a value that is none of the file's factors
DfAt(df, idx) == IF idx >= 0 /\ idx < Len(df) THEN df[idx + 1] ELSE 0 - 1

\* the n factors read from cursor df_index on
DfTake(df, df_index, n) == [k \in 1..n |-> DfAt(df, df_index + k - 1)]

\* the distribution factors of an emitted side copied without moving the
\* cursor on (df_index in place of df_index++)
TakeFactorsInPlace(st, ss, ndf) ==
  IF Len(ss.df) = 0 THEN st
  ELSE [st EXCEPT !.dfv = st.dfv \o DfTake(ss.df, st.df_index, ndf),
                  !.oob = st.oob \/ st.df_index + ndf > Len(ss.df)]

\* the distribution factors of an emitted side: when the side set has any,
\* ndf of them are copied from the cursor on and the cursor advances;
\* st = [ents, add, rev, dfv, df_index, status, oob]
TakeFactors(st, ss, ndf) ==
  IF Len(ss.df) = 0 THEN st
  ELSE [st EXCEPT !.dfv = st.dfv \o DfTake(ss.df, st.df_index, ndf),
                  !.df_index = st.df_index + ndf,
                  !.oob = st.oob \/ st.df_index + ndf > Len(ss.df)]

\* a side of create_ss_elements that is the element itself: a shell's side 1 is
\* added forwards, its side 2 goes to reverse_entities
SideItself(st, ss, ent_handle, reverse, ndf) ==
  TakeFactors([st EXCEPT
                 !.add = IF reverse THEN st.add ELSE Append(st.add, EH(ent_handle)),
                 !.rev = IF reverse THEN Append(st.rev, EH(ent_handle)) ELSE st.rev],
              ss, ndf)

\* a side materialized by create_sideset_element
SideMade(st, ss, made, ndf) ==
  TakeFactors([st EXCEPT !.ents = made.ents,
                         !.add = Append(st.add, EH(made.handle))],
              ss, ndf)

\* a side taken from the parent's connectivity through the sub-entity table;
\* sub = [subtype, idx]
SideOfSub(st, ss, ent_handle, sub, ndf) ==
  IF sub.idx = <<>> THEN [st EXCEPT !.status = MB_FAILURE]
  ELSE SideMade(st, ss,
                create_sideset_element(
                  st.ents,
                  [k \in 1..Len(sub.idx) |-> st.ents[ent_handle].conn[sub.idx[k] + 1]],
                  sub.subtype),
                ndf)

SideDerived(st, ss, ent_handle, type, dim, side_num, ndf) ==
  SideOfSub(st, ss, ent_handle, SubEntityNodeIndices(type, dim, side_num), ndf)

\* the switch of create_ss_elements on the element's type for side i
SideOfType(st, ss, i, exoii_type, type, ent_handle) ==
  IF type = "MBHEX" THEN SideDerived(st, ss, ent_handle, type, 2, ss.sides[i] - 1, 4)
  ELSE IF type = "MBTET" THEN SideDerived(st, ss, ent_handle, type, 2, ss.sides[i] - 1, 3)
  ELSE IF type = "MBQUAD" /\ InShellRange(exoii_type)
    THEN IF ss.sides[i] \in {1, 2} THEN SideItself(st, ss, ent_handle, ss.sides[i] = 2, 4)
         ELSE SideDerived(st, ss, ent_handle, type, 1, ss.sides[i] - 3, 2)
  ELSE IF type = "MBQUAD" THEN SideDerived(st, ss, ent_handle, type, 1, ss.sides[i] - 1, 2)
  ELSE IF type = "MBTRI"
    THEN IF hdr.numDim = 3 /\ ss.sides[i] <= 2 THEN SideItself(st, ss, ent_handle, FALSE, 3)
         ELSE SideDerived(st, ss, ent_handle, type, 1,
                          ss.sides[i] - (IF hdr.numDim = 3 THEN 3 ELSE 1), 2)
  ELSE st

\* side i once find_side_element_type has answered f: a side of a block that
\* is not being read in only moves the cursor
SideFound(st, ss, blocks, i, f) ==
  IF f.status # MB_SUCCESS THEN [st EXCEPT !.df_index = f.df_index]
  ELSE SideOfType(st, ss, i, f.elem_type, ExoIIElementMBEntity(f.elem_type),
                  ss.elems[i] - blocks[f.k].startExoId + blocks[f.k].startMBId)

\* one iteration of the side loop of create_ss_elements on side i of side set ss
SsSide(st, ss, blocks, i) ==
  IF st.status # MB_SUCCESS THEN st
  ELSE SideFound(st, ss, blocks, i,
                 find_side_element_type(blocks, ss.elems[i], st.df_index, ss.sides[i]))

RECURSIVE SsSides(_, _, _, _)
SsSides(st, ss, blocks, i) ==
  IF i > Len(ss.elems) THEN st
  ELSE SsSides(SsSide(st, ss, blocks, i), ss, blocks, i + 1)

\* create_ss_elements on one side set of the file
create_ss_elements(es, ss, blocks) ==
  SsSides([ents |-> es, add |-> <<>>, rev |-> <<>>, dfv |-> <<>>, df_index |-> 0,
           status |-> MB_SUCCESS, oob |-> FALSE], ss, blocks, 1)

\* the end of read_sidesets' loop body: entities_to_add go into the side set
\* and, when the file has factors for it, the new factors followed by the
\* ones already stored become its distribution factor tag
StoreSides(es, ss1, ss_handle, ss, made) ==
  [ents |-> es,
   sets |-> IF Len(ss.df) = 0 THEN ss1
            ELSE [ss1 EXCEPT ![ss_handle].df = made.dfv \o ss1[ss_handle].df],
   status |-> MB_SUCCESS]

\* the branch of read_sidesets that creates the side set: an ordered meshset
\* tagged with the neumann id and global id and, when there are reverse
\* entities, a child meshset holding them, tagged SENSE = -1
CreatedSideset(ss1, id, rev) ==
  IF rev = <<>>
    THEN Append(ss1, [NewSet("ORDERED") EXCEPT !.neu = << id >>, !.gid = << id >>])
    ELSE Append(Append(ss1, [NewSet("ORDERED") EXCEPT
                               !.neu = << id >>, !.gid = << id >>,
                               !.members = << SH(Len(ss1) + 2) >>]),
                [NewSet("SET") EXCEPT !.sense = << 0 - 1 >>,
                                      !.members = AddMembers("SET", <<>>, rev)])

\* the same branch left at the first add_entities with the code dberr
FailedSideset(ss1, id) ==
  Append(Append(ss1, [NewSet("ORDERED") EXCEPT !.neu = << id >>, !.gid = << id >>]),
         NewSet("SET"))

\* read_sidesets once the sides are made and some exist; hits are the
\* candidate meshsets whose neumann tag reads the side set's id
PlaceSides(st, ss, made, hits, dberr) ==
  IF hits # {}
    THEN StoreSides(made.ents, AddEntities(st.sets, Min(hits), made.add),
                    Min(hits), ss, made)
  ELSE IF made.rev # <<>> /\ dberr # MB_SUCCESS
    THEN [ents |-> made.ents, sets |-> FailedSideset(st.sets, ss.id), status |-> dberr]
  ELSE StoreSides(made.ents,
                  AddEntities(CreatedSideset(st.sets, ss.id, made.rev),
                              Len(st.sets) + 1, made.add),
                  Len(st.sets) + 1, ss, made)

\* read_sidesets after create_ss_elements returned made for side set ss
SidesMade(st, ss, made, child, dberr) ==
  IF made.status # MB_SUCCESS
    THEN [ents |-> made.ents, sets |-> st.sets, status |-> MB_FAILURE]
  ELSE IF made.add = <<>> /\ made.rev = <<>>
    THEN [st EXCEPT !.ents = made.ents]
  ELSE PlaceSides(st, ss, made,
                  {h \in child : TagGet(st.sets[h].neu) = ss.id}, dberr)

\* read_sidesets on side set i of the file; child is the set of meshsets
\* created since initRange, taken once before the loop; dberr is the code
\* add_entities returns when the reverse set is put into a new side set
\* (MB_SUCCESS, or a code read_sidesets returns as it is); st = [ents, sets, status]
ReadSideset(st, i, child, dberr) ==
  IF st.status # MB_SUCCESS THEN st
  ELSE SidesMade(st, file.sidesets[i],
                 create_ss_elements(st.ents, file.sidesets[i], blocksLoading),
                 child, dberr)

RECURSIVE ReadSidesetsFrom(_, _, _, _)
ReadSidesetsFrom(st, i, child, dberr) ==
  IF i > hdr.numSideSets THEN st
  ELSE ReadSidesetsFrom(ReadSideset(st, i, child, dberr), i + 1, child, dberr)

\* read_sidesets; out: MB_SUCCESS, MB_FAILURE (ss_prop1 cannot be read) or a
\* code handed back by the database while the reverse set is built
read_sidesets(out) ==
  LET st0 == [ents |-> ents, sets |-> sets, status |-> MB_SUCCESS]
      child == {h \in DOMAIN sets : h > initRange.ns}
  IN IF hdr.numSideSets = 0 THEN st0
     ELSE IF out = MB_FAILURE THEN [st0 EXCEPT !.status = MB_FAILURE]
     ELSE ReadSidesetsFrom(st0, 1, child, out)

LoadSidesets ==
  /\ pc = "sidesets"
  /\ \E out \in {MB_SUCCESS, MB_FAILURE} \cup DbErrors :
       LET r == read_sidesets(out) IN
       /\ ents' = r.ents
       /\ sets' = r.sets
       /\ AfterStage("sidesets", r.status, "qa")
  /\ UNCHANGED << file, id_array, verts, ncFile, readerVars, calls, args, upd >>

\* ------------------------------------------------ stage 8: QA records, return
\* read_qa_records: the records of the file become the qaRecord tag of the
\* file set; io = FALSE: qa_records cannot be read
read_qa_records(ss, file_set, io) ==
  IF file.num_qa_rec = 0 THEN [status |-> MB_SUCCESS, sets |-> ss]
  ELSE IF ~io THEN [status |-> MB_FAILURE, sets |-> ss]
  ELSE [status |-> MB_SUCCESS, sets |-> [ss EXCEPT ![file_set].qa = << file.num_qa_rec >>]]

\* what the caller does with a load that succeeded: the file set becomes the
\* owner of every entity the load produced
CallerFileSet(ss, vs, es) ==
  LET newV == {h \in DOMAIN vs : h > initRange.nv}
      newE == {h \in DOMAIN es : h > initRange.ne}
      newS == {h \in DOMAIN ss : h > initRange.ns}
      seqOf(kind, S) ==
        LET lo == IF S = {} THEN 1 ELSE Min(S)
        IN [j \in 1..Cardinality(S) |-> << kind, lo + j - 1 >>]
  IN AddEntities(ss, FileSetHandle,
                 seqOf("V", newV) \o seqOf("E", newE) \o seqOf("S", newS))

\* the end of load_file with the file_set test left out: the QA records are
\* read whether or not a file set is given
LoadQaRecordsAlways ==
  /\ pc = "qa"
  /\ \E io \in BOOLEAN :
       LET r == read_qa_records(sets, FileSetHandle, io)
       IN /\ stages' = Append(stages, [stage |-> "qa", status |-> r.status])
          /\ IF r.status = MB_FAILURE
               THEN /\ Return(MB_FAILURE)
                    /\ sets' = r.sets
                    /\ UNCHANGED ncFile
               ELSE /\ Return(MB_SUCCESS)
                    /\ ncFile' = "NULL"
                    /\ sets' = IF args.file_set
                                 THEN CallerFileSet(r.sets, verts, ents)
                                 ELSE r.sets
  /\ UNCHANGED << file, id_array, verts, ents, readerVars, calls, args, upd >>

\* the end of load_file: QA records when a file set is given, then
\* ncFile = 0 and MB_SUCCESS
LoadQaRecords ==
  /\ pc = "qa"
  /\ \E io \in BOOLEAN :
       LET r == IF args.file_set THEN read_qa_records(sets, FileSetHandle, io)
                ELSE [status |-> MB_SUCCESS, sets |-> sets]
       IN /\ stages' = IF args.file_set
                         THEN Append(stages, [stage |-> "qa", status |-> r.status])
                         ELSE stages
          /\ IF r.status = MB_FAILURE
               THEN /\ Return(MB_FAILURE)
                    /\ sets' = r.sets
                    /\ UNCHANGED ncFile
               ELSE /\ Return(MB_SUCCESS)
                    /\ ncFile' = "NULL"
                    /\ sets' = IF args.file_set
                                 THEN CallerFileSet(r.sets, verts, ents)
                                 ELSE r.sets
  /\ UNCHANGED << file, id_array, verts, ents, readerVars, calls, args, upd >>

\* ------------------------------------------------------------------ update
\* std::string::npos
npos == 0 - 1

\* std::string::find_first_of / find_first_not_of from 0-based position from
find_first_of(str, delimiters, from) ==
  LET hits == {q \in 0..(Len(str) - 1) : q >= from /\ str[q + 1] \in delimiters}
  IN IF from = npos \/ hits = {} THEN npos ELSE Min(hits)

find_first_not_of(str, delimiters, from) ==
  LET hits == {q \in 0..(Len(str) - 1) : q >= from /\ str[q + 1] \notin delimiters}
  IN IF from = npos \/ hits = {} THEN npos ELSE Min(hits)

\* the while loop of tokenize
RECURSIVE TokenizeLoop(_, _, _, _, _)
TokenizeLoop(str, delimiters, tokens, last, pos) ==
  IF pos = npos \/ last = npos THEN tokens
  ELSE LET last2 == find_first_not_of(str, delimiters, pos)
           q == find_first_of(str, delimiters, last2)
       IN TokenizeLoop(str, delimiters,
                       Append(tokens, SubSeq(str, last + 1, pos)),
                       last2, IF q = npos THEN Len(str) ELSE q)

\* ReadNCDF::tokenize
tokenize(str, delimiters) ==
  LET last == find_first_not_of(str, delimiters, 0)
  IN TokenizeLoop(str, delimiters, <<>>, last, find_first_of(str, delimiters, last))

\* strtol(s, &endptr, 0) on a string without white space or base prefix: an
\* optional sign and the longest run of decimal digits; end is the unparsed rest
DigitValue(c) ==
  CASE c = "0" -> 0 [] c = "1" -> 1 [] c = "2" -> 2 [] c = "3" -> 3 [] c = "4" -> 4
    [] c = "5" -> 5 [] c = "6" -> 6 [] c = "7" -> 7 [] c = "8" -> 8 [] c = "9" -> 9
    [] OTHER -> 0 - 1

RECURSIVE StrtolDigits(_, _, _)
StrtolDigits(s, i, acc) ==
  IF i > Len(s) \/ DigitValue(s[i]) < 0 THEN [val |-> acc, next |-> i]
  ELSE StrtolDigits(s, i + 1, 10 * acc + DigitValue(s[i]))

strtol(s) ==
  LET signed == s # <<>> /\ s[1] \in {"-", "+"}
      start == IF signed THEN 2 ELSE 1
      r == StrtolDigits(s, start, 0)
  IN IF r.next = start THEN [val |-> 0, end |-> s]
     ELSE [val |-> IF signed /\ s[1] = "-" THEN 0 - r.val ELSE r.val,
           end |-> SubSeq(s, r.next, Len(s))]

\* a long converted to int
ToInt(v) == ((v + 2 ^ (IntBits - 1)) % (2 ^ IntBits)) - 2 ^ (IntBits - 1)

\* update's parse of the directive: the code it returns at once, or MB_SUCCESS
\* with the time step
update_directive(tokens) ==
  LET given == Len(tokens) > 1 /\ tokens[2] # <<>>
      parsed == strtol(tokens[2])
      time_step == IF given THEN ToInt(parsed.val) ELSE 1
  IN IF given /\ parsed.end # <<>>
       THEN [code |-> MB_TYPE_OUT_OF_RANGE, time_step |-> 1]
     ELSE IF given /\ parsed.val # time_step
       THEN [code |-> MB_TYPE_OUT_OF_RANGE, time_step |-> time_step]
     ELSE IF given /\ time_step <= 0
       THEN [code |-> MB_TYPE_OUT_OF_RANGE, time_step |-> time_step]
     ELSE IF Len(tokens) < 3
             \/ (tokens[3] # << "s", "e", "t" >> /\ tokens[3] # << "a", "d", "d" >>)
       THEN [code |-> MB_TYPE_OUT_OF_RANGE, time_step |-> time_step]
     ELSE [code |-> MB_SUCCESS, time_step |-> time_step]

\* live elements of the database, and the members of the file set
LiveElements(es) == {h \in DOMAIN es : es[h].alive}

\* update up to the opening of the file: the directive is tokenized and
\* checked, then the file is opened
UpdateBegin ==
  /\ pc = "update"
  /\ \E valid \in BOOLEAN :
       LET tokens == tokenize(args.tdata, {","})
           d == update_directive(tokens)
       IN /\ upd' = [NoUpd EXCEPT !.tokens = tokens, !.time_step = d.time_step,
                                   !.before_alive = LiveElements(ents),
                                   !.before_fs = sets[FileSetHandle].members]
          /\ IF d.code # MB_SUCCESS
               THEN Return(d.code) /\ UNCHANGED ncFile
               ELSE /\ ncFile' = "fileObject"
                    /\ IF valid
                         THEN pc' = "updateHeader" /\ fileOpen' = TRUE /\ UNCHANGED ret
                         ELSE Return(MB_FILE_DOES_NOT_EXIST)
  /\ UNCHANGED << file, id_array, dbVars, readerVars, calls, args, stages >>

\* the result variables of the file update reads: the size of the time_step
\* dimension, the displacement vals_nod_var<d> of node i at time step t, and
\* the lists of element variable names tried for name_elem_var
time_step_dim(f) == MaxTimeSteps
vals_nod_var(f, d, t, i) == 100 * t + d
ElemVarNames == { << "death_status" >>, << "stress", "DEATH_STATUS" >>, << "stress" >> }

\* the z coordinate of an uninitialized CartVect component
GarbageCoords == {0, 99}

\* update from read_exodus_header to the checks of the variable name and the
\* operation: time step check, node_num_map (the vector stays zero when the
\* file has no such variable), displacements and coordinates; io = FALSE: one
\* of these variables cannot be read
UpdateHeader ==
  /\ pc = "updateHeader"
  /\ \E ioh \in BOOLEAN, io \in BOOLEAN :
       LET r == read_exodus_header(ioh)
           n == r.hdr.numNodes
           ptr == IF file.node_num_map # <<>> THEN file.node_num_map
                  ELSE [i \in 1..n |-> 0]
           code ==
             IF r.status # MB_SUCCESS THEN r.status
             ELSE IF time_step_dim(file) < upd.time_step THEN MB_FAILURE
             ELSE IF ~io THEN MB_FAILURE
             ELSE IF upd.tokens[1] # << "c", "o", "o", "r", "d" >>
                     /\ upd.tokens[1] # << "C", "O", "O", "R", "D" >>
               THEN MB_NOT_IMPLEMENTED
             ELSE IF upd.tokens[3] # << "s", "e", "t" >>
                     /\ upd.tokens[3] # << " ", "s", "e", "t" >>
               THEN MB_NOT_IMPLEMENTED
             ELSE MB_SUCCESS
       IN /\ hdr' = r.hdr
          /\ upd' = IF r.status = MB_SUCCESS /\ io THEN [upd EXCEPT !.ptr = ptr] ELSE upd
          /\ IF code # MB_SUCCESS
               THEN Return(code)
               ELSE pc' = "updateNodes" /\ UNCHANGED << ret, fileOpen >>
  /\ UNCHANGED << file, id_array, dbVars, ncFile, vertexOffset, blocksLoading,
                  nodesInLoadedBlocks, initRange, calls, args, stages >>

\* the vertices of cub_file_set in handle order
CubVerts(ss, cub_file_set) ==
  {h \in 1..Len(verts) : VH(h) \in Range(ss[cub_file_set].members)}

\* cub_verts_id_map: std::map::insert keeps the first vertex inserted for an id
CubVertsIdMap(vs, cub_verts) ==
  {<< TagGet(vs[h].gid), h >> : h \in
     {h \in cub_verts : \A g \in cub_verts :
                          TagGet(vs[g].gid) = TagGet(vs[h].gid) => h <= g}}

MapHas(m, key) == \E e \in m : e[1] = key
MapAt(m, key) == (CHOOSE e \in m : e[1] = key)[2]

\* the matching loop of update from exodus node i on: a node whose id is in
\* cub_verts_id_map moves that vertex to original + displacement and enters
\* matched_cub_vert_id_map; st = [verts, matched, found, lost]
RECURSIVE MatchNodes(_, _, _, _, _)
MatchNodes(st, i, ptr, id_map, gz) ==
  IF i > Len(ptr) THEN st
  ELSE LET exo_id == ptr[i]
           t == upd.time_step
           cub_vert == MapAt(id_map, exo_id)
           updated == << file.coord[1][i] + vals_nod_var(file, 1, t, i),
                         file.coord[2][i] + vals_nod_var(file, 2, t, i),
                         IF hdr.numDim = 3
                           THEN file.coord[3][i] + vals_nod_var(file, 3, t, i)
                           ELSE gz >>
       IN IF MapHas(id_map, exo_id)
            THEN MatchNodes([st EXCEPT !.verts[cub_vert].coord = updated,
                                       !.matched = IF MapHas(st.matched, exo_id)
                                                     THEN st.matched
                                                     ELSE st.matched \cup {<< exo_id, cub_vert >>},
                                       !.found = st.found + 1],
                            i + 1, ptr, id_map, gz)
            ELSE MatchNodes([st EXCEPT !.lost = st.lost + 1], i + 1, ptr, id_map, gz)

\* std::string::find of the three spellings in an element variable name
HasDeathStatus(name) == name \in {"death_status", "Death_Status", "DEATH_STATUS"}

\* update from the node matching to the death_status index: the vertices are
\* moved, then name_elem_var is searched; io = FALSE: num_elem_var or
\* name_elem_var cannot be read
UpdateNodes ==
  /\ pc = "updateNodes"
  /\ \E io \in BOOLEAN, names \in ElemVarNames, gz \in GarbageCoords :
       LET cub_verts == CubVerts(sets, FileSetHandle)
           st == MatchNodes([verts |-> verts, matched |-> {}, found |-> 0, lost |-> 0],
                            1, upd.ptr, CubVertsIdMap(verts, cub_verts), gz)
           found_death_index == \E k \in 1..Len(names) : HasDeathStatus(names[k])
       IN /\ verts' = st.verts
          /\ upd' = [upd EXCEPT !.matched = st.matched, !.found = st.found,
                                !.lost = st.lost]
          /\ IF ~io \/ ~found_death_index
               THEN Return(MB_FAILURE)
               ELSE pc' = "updateBlockHeaders" /\ UNCHANGED << ret, fileOpen >>
  /\ UNCHANGED << file, id_array, ents, sets, ncFile, readerVars, calls, args, stages >>

\* update's call of read_block_headers, which pushes the file's block records
\* onto blocksLoading as it is
UpdateBlockHeaders ==
  /\ pc = "updateBlockHeaders"
  /\ \E io \in BOOLEAN, gap \in 0..MaxGap,
        g \in [OobSlots(file, args.blocks_to_load, args.num_blocks) -> GarbageInts(file)] :
       LET r == read_block_headers(args.blocks_to_load, args.num_blocks, gap, g, io) IN
       /\ blocksLoading' = r.blocksLoading
       /\ IF r.status = MB_FAILURE
            THEN Return(MB_FAILURE)
            ELSE pc' = "updateDead" /\ UNCHANGED << ret, fileOpen >>
  /\ UNCHANGED << file, id_array, dbVars, ncFile, hdr, vertexOffset, nodesInLoadedBlocks,
                  initRange, calls, args, stages, upd >>

\* the opposite test: an element is taken as dead when its status is 1
IsDeadSwapped(status) == 1 = status

\* the test of update on an element's death_status value
IsDead(status) == 1 # status

\* ptr[c - 1] for a connectivity entry c; an entry outside 1..numNodes reads
\* outside the vector (garbage gp)
PtrAt(ptr, c, gp) == IF c \in 1..Len(ptr) THEN ptr[c] ELSE gp

\* the lookup loop of update over the node ids of one element: it stops at the
\* first id missing from matched_cub_vert_id_map; the Range cub_nodes holds
\* each vertex found once
CubNodes(matched, ids) ==
  LET miss == {k \in 1..Len(ids) : ~MapHas(matched, ids[k])}
      upto == IF miss = {} THEN Len(ids) ELSE Min(miss) - 1
  IN {MapAt(matched, ids[k]) : k \in 1..upto}

\* Interface::get_adjacencies(cub_nodes, to_dim, false, cub_elem): the live
\* entities of dimension to_dim that use every vertex of cub_nodes
AdjacentToAll(es, cub_nodes, to_dim) ==
  {h \in DOMAIN es : es[h].alive /\ Dimension(es[h].type) = to_dim
                     /\ cub_nodes \subseteq Range(es[h].conn)}

\* an element loop that skips a dead element it cannot match instead of
\* returning: the lookup and the deletion are those of DeadElement
DeadElementSkipping(st, bi, j, death, gp) ==
  LET b == st.blocks[bi]
      nodes_per_element == VerticesPerElement(b.elemType)
      elem_conn == file.blocks[bi].conn[j]
      ids == [k \in 1..nodes_per_element |-> PtrAt(upd.ptr, elem_conn[k], gp)]
      cub_nodes == CubNodes(upd.matched, ids)
      cub_elem == AdjacentToAll(st.ents, cub_nodes,
                                Dimension(ExoIIElementMBEntity(b.elemType)))
      h == CHOOSE e \in cub_elem : TRUE
      rest == SelectSeq(st.sets[FileSetHandle].members, LAMBDA m : m # EH(h))
  IN IF st.code # "" \/ ~IsDead(death[bi][j]) THEN st
     ELSE IF nodes_per_element # Cardinality(cub_nodes) \/ Cardinality(cub_elem) # 1
       THEN st
     ELSE [st EXCEPT !.sets[FileSetHandle].members = rest,
                     !.ents[h].alive = FALSE,
                     !.deleted = Append(st.deleted, h),
                     !.dead = st.dead + 1]

\* one iteration of update's element loop on element j of block record bi;
\* st = [ents, sets, blocks, report, deleted, dead, code], code "" while the
\* loop runs
DeadElement(st, bi, j, death, gp) ==
  LET b == st.blocks[bi]
      nodes_per_element == VerticesPerElement(b.elemType)
      elem_conn == file.blocks[bi].conn[j]
      ids == [k \in 1..nodes_per_element |-> PtrAt(upd.ptr, elem_conn[k], gp)]
      cub_nodes == CubNodes(upd.matched, ids)
      cub_elem == AdjacentToAll(st.ents, cub_nodes,
                                Dimension(ExoIIElementMBEntity(b.elemType)))
      h == CHOOSE e \in cub_elem : TRUE
      rest == SelectSeq(st.sets[FileSetHandle].members, LAMBDA m : m # EH(h))
  IN IF st.code # "" \/ ~IsDead(death[bi][j]) THEN st
     ELSE IF nodes_per_element # Cardinality(cub_nodes)
       THEN [st EXCEPT !.code = MB_INVALID_SIZE]
     ELSE IF Cardinality(cub_elem) # 1
       THEN [st EXCEPT !.code = MB_FAILURE]
     ELSE [st EXCEPT !.sets[FileSetHandle].members = rest,
                     !.ents[h].alive = FALSE,
                     !.deleted = Append(st.deleted, h),
                     !.dead = st.dead + 1]

RECURSIVE DeadElements(_, _, _, _, _)
DeadElements(st, bi, j, death, gp) ==
  IF j > st.blocks[bi].numElements THEN st
  ELSE DeadElements(DeadElement(st, bi, j, death, gp), bi, j + 1, death, gp)

\* update's block loop from block record bi on (block_count = bi): connect<bi>
\* must exist in the file; its elem_type attribute sets the record's elemType;
\* every dead element is matched and deleted; the block's line of the report
\* is printed
RECURSIVE DeadBlocks(_, _, _, _)
DeadBlocks(st, bi, death, gp) ==
  IF st.code # "" \/ bi > Len(st.blocks) THEN st
  ELSE IF bi > Len(file.blocks) THEN [st EXCEPT !.code = MB_FAILURE]
  ELSE LET et == static_element_name_to_type(file.blocks[bi].elem_type)
           s1 == DeadElements([st EXCEPT !.blocks[bi].elemType = et, !.dead = 0],
                              bi, 1, death, gp)
           line == [blockId |-> s1.blocks[bi].blockId, dead |-> s1.dead,
                    numElements |-> s1.blocks[bi].numElements]
       IN DeadBlocks(IF s1.code # "" THEN s1
                     ELSE [s1 EXCEPT !.report = Append(s1.report, line)],
                     bi + 1, death, gp)

\* the death_status values tried: death[k][j] is the value of element j of
\* block k at the chosen time step
DeathChoices(f) ==
  {[k \in 1..Len(f.blocks) |-> [j \in 1..Len(f.blocks[k].conn) |-> d[k][j]]] :
     d \in [1..Len(f.blocks) -> [1..MaxBlockElements -> {0, 1}]]}

\* the end of update: the dead elements of every block record are removed from
\* the file set and deleted; io = FALSE: a variable of the first block cannot
\* be read.  update returns without clearing ncFile.
UpdateDeadElements ==
  /\ pc = "updateDead"
  /\ \E io \in BOOLEAN, death \in DeathChoices(file), gp \in GarbageInts(file) :
       LET st0 == [ents |-> ents, sets |-> sets, blocks |-> blocksLoading,
                   report |-> <<>>, deleted |-> <<>>, dead |-> 0,
                   code |-> IF ~io /\ blocksLoading # <<>> THEN MB_FAILURE ELSE ""]
           r == DeadBlocks(st0, 1, death, gp)
       IN /\ ents' = r.ents
          /\ sets' = r.sets
          /\ blocksLoading' = r.blocks
          /\ upd' = [upd EXCEPT !.death = death, !.report = r.report,
                                !.deleted = r.deleted]
          /\ Return(IF r.code = "" THEN MB_SUCCESS ELSE r.code)
  /\ UNCHANGED << file, id_array, verts, ncFile, hdr, vertexOffset,
                  nodesInLoadedBlocks, initRange, calls, args, stages >>

\* ----------------------------------------------------------- read_tag_values
\* the tag names tried
TagNames == {MATERIAL_SET_TAG_NAME, DIRICHLET_SET_TAG_NAME, NEUMANN_SET_TAG_NAME,
             "GLOBAL_ID"}

\* read_tag_values, a whole call: valid = FALSE: the file cannot be opened;
\* ioh = FALSE: the header cannot be read; io = FALSE: the prop variable cannot
\* be read
read_tag_values(tag_name, subset, valid, ioh, io) ==
  LET r == read_exodus_header(ioh)
      count == CASE tag_name = MATERIAL_SET_TAG_NAME -> r.hdr.numBlocks
                 [] tag_name = DIRICHLET_SET_TAG_NAME -> r.hdr.numNodeSets
                 [] tag_name = NEUMANN_SET_TAG_NAME -> r.hdr.numSideSets
                 [] OTHER -> 0
      prop == CASE tag_name = MATERIAL_SET_TAG_NAME -> BlockIds(file)
                [] tag_name = DIRICHLET_SET_TAG_NAME ->
                     [k \in 1..Len(file.nodesets) |-> file.nodesets[k].id]
                [] tag_name = NEUMANN_SET_TAG_NAME ->
                     [k \in 1..Len(file.sidesets) |-> file.sidesets[k].id]
                [] OTHER -> <<>>
      same == [code |-> MB_SUCCESS, ncFile |-> ncFile, hdr |-> hdr, id_array |-> id_array]
  IN IF ~subset.null THEN [same EXCEPT !.code = MB_UNSUPPORTED_OPERATION]
     ELSE IF ~valid
       THEN [same EXCEPT !.code = MB_FILE_DOES_NOT_EXIST, !.ncFile = "fileObject"]
     ELSE IF r.status = MB_FAILURE
       THEN [same EXCEPT !.code = MB_FAILURE, !.ncFile = "fileObject"]
     ELSE IF tag_name \notin {MATERIAL_SET_TAG_NAME, DIRICHLET_SET_TAG_NAME,
                              NEUMANN_SET_TAG_NAME}
       THEN [same EXCEPT !.code = MB_TAG_NOT_FOUND, !.ncFile = "NULL", !.hdr = r.hdr]
     ELSE IF count # 0 /\ ~io
       THEN [same EXCEPT !.code = MB_FAILURE, !.ncFile = "fileObject", !.hdr = r.hdr,
                         !.id_array = [k \in 1..count |->
                                         IF k <= Len(id_array) THEN id_array[k] ELSE 0]]
     ELSE [code |-> MB_SUCCESS, ncFile |-> "NULL", hdr |-> r.hdr,
           id_array |-> IF count # 0 THEN prop ELSE id_array]

ReadTagValues ==
  /\ pc = "idle"
  /\ calls < MaxCalls
  /\ \E tag_name \in TagNames, subset \in {NullSubset} \cup SubsetLists(file),
        valid \in BOOLEAN, ioh \in BOOLEAN, io \in BOOLEAN :
       LET r == read_tag_values(tag_name, subset, valid, ioh, io) IN
       /\ calls' = calls + 1
       /\ args' = [op |-> "read_tag_values", subset |-> subset, tdata |-> <<>>,
                   file_set |-> FALSE, file_id_tag |-> FALSE,
                   blocks_to_load |-> NullInts, num_blocks |-> 0,
                   tag_name |-> tag_name]
       /\ stages' = <<>>
       /\ ncFile' = r.ncFile
       /\ hdr' = r.hdr
       /\ id_array' = r.id_array
       /\ Return(r.code)
  /\ UNCHANGED << file, dbVars, vertexOffset, blocksLoading, nodesInLoadedBlocks,
                  initRange, upd >>

\* ------------------------------------------------------------------ factory
\* ReadNCDF::factory: the caller makes a new reader for its next call on the
\* same database; the constructor runs reset() and sets ncFile = NULL
NewReader ==
  /\ pc = "idle"
  /\ calls \in 1..(MaxCalls - 1)
  /\ << ncFile, hdr, vertexOffset, blocksLoading, nodesInLoadedBlocks >>
       # << "NULL", ResetHdr, 0, <<>>, <<>> >>
  /\ ncFile' = "NULL"
  /\ hdr' = ResetHdr
  /\ vertexOffset' = 0
  /\ blocksLoading' = <<>>
  /\ nodesInLoadedBlocks' = <<>>
  /\ initRange' = [nv |-> 0, ne |-> 0, ns |-> 0]
  /\ UNCHANGED << file, id_array, dbVars, fileOpen, pc, calls, args, ret, stages, upd >>

Next ==
  \/ LoadFileBegin
  \/ LoadHeader
  \/ LoadNodes
  \/ LoadBlockHeaders
  \/ LoadElements
  \/ LoadGlobalIds
  \/ LoadNodesets
  \/ LoadSidesets
  \/ LoadQaRecords
  \/ UpdateBegin
  \/ UpdateHeader
  \/ UpdateNodes
  \/ UpdateBlockHeaders
  \/ UpdateDeadElements
  \/ ReadTagValues
  \/ NewReader

Spec == Init /\ [][Next]_vars

\* ===================================================================== claims
\* the entry of the stage list for a stage the running (or last) call ran
StageRan(name) == \E i \in DOMAIN stages : stages[i].stage = name
StageStatus(name) == stages[CHOOSE i \in DOMAIN stages : stages[i].stage = name].status

\* C1: after read_block_headers(blocks_to_load, num_blocks) a block's
\* reading_in flag is true if and only if blocks_to_load is null, or
\* num_blocks is 0, or the block's id is one of the num_blocks entries of
\* blocks_to_load; a block whose id is not in a non-empty list is marked not
\* selected.  (Stated where load_file has just run read_block_headers; the
\* formula is the "only if" half, the claim's last sentence.)
C1_UnlistedBlockNotSelected ==
  pc = "elements" =>
    \A k \in DOMAIN blocksLoading :
      blocksLoading[k].reading_in =>
        \/ args.blocks_to_load.null
        \/ args.num_blocks = 0
        \/ blocksLoading[k].blockId \in Range(args.blocks_to_load.vals)

\* C2: load_file accepts a subset list with exactly one tag entry named as the
\* material-set tag and no parts, and uses its tag values as the blocks to
\* load; a subset list with more than one tag entry, with another tag, or with
\* a non-zero number of parts fails with unsupported-operation before the file
\* is opened.
C2_SubsetByMaterialOnly ==
  (args.op = "load_file" /\ ~args.subset.null) =>
    IF /\ Len(args.subset.tag_list) = 1
       /\ args.subset.tag_list[1].tag_name = MATERIAL_SET_TAG_NAME
       /\ args.subset.num_parts = 0
      THEN /\ args.blocks_to_load = IntsAt(args.subset.tag_list[1].tag_values)
           /\ args.num_blocks = Len(args.subset.tag_list[1].tag_values)
      ELSE /\ pc = "idle"
           /\ ret = MB_UNSUPPORTED_OPERATION
           /\ stages = <<>>

\* the connectivity entries of block k of the file
ConnEntries(f, k) == Range(Flatten(f.blocks[k].conn))

\* C3: read_elements fails for every selected block that has a connectivity
\* entry c outside 1..numNodes, including c = 0 and negative c; it passes the
\* check only when every entry satisfies 1 <= c <= numNodes.
C3_ConnectivityInRange ==
  (args.op = "load_file" /\ StageRan("elements")
     /\ Len(blocksLoading) = Len(file.blocks)) =>
    (StageStatus("elements") = MB_SUCCESS =>
       \A k \in DOMAIN blocksLoading :
         blocksLoading[k].reading_in =>
           \A c \in ConnEntries(file, k) : 1 <= c /\ c <= file.numNodes)

\* C4: if any stage called by load_file returns any code other than success,
\* load_file returns a non-success code and runs no later stage.
C4_StageFailureEndsLoad ==
  \A i \in DOMAIN stages :
    stages[i].status # MB_SUCCESS =>
      /\ i = Len(stages)
      /\ pc = "idle"
      /\ ret # MB_SUCCESS

\* C5: at the start of block processing in every call of load_file on the same
\* reader, including a call that dispatches to update after an earlier full
\* load, blocksLoading holds exactly one record per element block of the file
\* read in this call; no block record from an earlier call remains.
C5_OneRecordPerBlock ==
  pc \in {"elements", "updateDead"} =>
    /\ Len(blocksLoading) = Len(file.blocks)
    /\ \A k \in DOMAIN blocksLoading : blocksLoading[k].blockId = file.blocks[k].id
\* C6: after read_tag_values, load_file or update returns, on success and on
\* every failure path, the reader no longer holds the file handle: the file is
\* closed and the reader's ncFile reference is cleared.
C6_HandleReleasedOnReturn ==
  (pc = "idle" /\ args.op # "none") => (~fileOpen /\ ncFile = "NULL")

\* the side cardinality of an element type: hex 4, tet 3, quad 2, tri 3, shell
\* side 1 or 2: 4, shell edge 2
SideCardinality(t, side_id) ==
  CASE InHexRange(t) -> 4
    [] InTetraRange(t) -> 3
    [] InQuadRange(t) -> 2
    [] InTriRange(t) -> 3
    [] InShellRange(t) -> IF side_id \in {1, 2} THEN 4 ELSE 2
    [] OTHER -> 0

\* the block of the file that owns exodus element id e (0 when none does)
OwningBlock(f, e) ==
  LET S == {k \in 1..Len(f.blocks) :
              LET before == SumSeq([m \in 1..(k - 1) |-> Len(f.blocks[m].conn)])
              IN e > before /\ e <= before + Len(f.blocks[k].conn)}
  IN IF S = {} THEN 0 ELSE CHOOSE k \in S : TRUE

\* C7: for a side whose owning block is not selected, side-set processing emits
\* no side and advances the distribution-factor cursor by the side cardinality
\* of that block's element type.  (Stated for every side of the file at the
\* start of read_sidesets, on a cursor at 0.)
C7_SkippedSideAdvancesCursor ==
  (pc = "sidesets" /\ Len(blocksLoading) = Len(file.blocks)) =>
    \A s \in 1..Len(file.sidesets) : \A i \in 1..Len(file.sidesets[s].elems) :
      LET e == file.sidesets[s].elems[i]
          side == file.sidesets[s].sides[i]
          k == OwningBlock(file, e)
      IN (k # 0 /\ ~blocksLoading[k].reading_in) =>
           /\ find_side_element_type(blocksLoading, e, 0, side).status # MB_SUCCESS
           /\ find_side_element_type(blocksLoading, e, 0, side).df_index =
                SideCardinality(static_element_name_to_type(file.blocks[k].elem_type), side)
\* the entities side set s of the file lists as shell elements with local side
\* side, in blocks that are being read in
ShellsListed(s, side) ==
  {EH(file.sidesets[s].elems[i] - blocksLoading[k].startExoId + blocksLoading[k].startMBId) :
     << i, k >> \in {ik \in (1..Len(file.sidesets[s].elems)) \X (1..Len(blocksLoading)) :
                      /\ file.sidesets[s].sides[ik[1]] = side
                      /\ ik[2] = OwningBlock(file, file.sidesets[s].elems[ik[1]])
                      /\ blocksLoading[ik[2]].reading_in
                      /\ InShellRange(blocksLoading[ik[2]].elemType)}}

\* the meshsets made by this load whose neumann tag reads id; the side set with
\* that id is the first of them
SidesetMeshsets(id) == {h \in DOMAIN sets : h > initRange.ns /\ TagGet(sets[h].neu) = id}

\* the number of times entity e is listed in a member list
TimesListed(members, e) == Cardinality({i \in DOMAIN members : members[i] = e})

\* read_sidesets has run in the call and returned MB_SUCCESS
SidesetsRead ==
  /\ pc = "qa"
  /\ StageStatus("sidesets") = MB_SUCCESS
  /\ Len(blocksLoading) = Len(file.blocks)

\* C8: for every side set in which at least one shell element is listed with
\* local side 2, after read_sidesets the side-set meshset has exactly one child
\* meshset tagged SENSE = -1 that contains each such shell once; a shell listed
\* with side 1 is a direct member of the side set.  This holds both when the
\* side-set meshset is newly created and when the sides are appended to an
\* existing one.
C8_ReverseShellsInSenseChild ==
  SidesetsRead =>
    \A s \in 1..Len(file.sidesets) :
      LET rev == ShellsListed(s, 2)
          fwd == ShellsListed(s, 1)
          h == Min(SidesetMeshsets(file.sidesets[s].id))
          kids == {r \in DOMAIN sets : /\ SH(r) \in Range(sets[h].members)
                                        /\ sets[r].sense = << 0 - 1 >>}
      IN /\ rev # {} =>
              /\ Cardinality(kids) = 1
              /\ \A r \in kids : \A e \in rev : TimesListed(sets[r].members, e) = 1
         /\ \A e \in fwd : e \in Range(sets[h].members)

\* two connectivities with the same vertices in the same orientation: one is a
\* rotation of the other
SameOriented(a, b) ==
  /\ Len(a) = Len(b)
  /\ \E q \in 1..Len(b) : Rotate(b, q) = a

\* C9: after read_sidesets no side-set meshset has two members with the same
\* vertex set in the same orientation; in particular no entity is listed twice
\* among its members, also when the file lists the same (element, side) pair
\* twice or lists a shared face from both adjacent elements.
C9_SidesetMembersDistinct ==
  SidesetsRead =>
    \A s \in 1..Len(file.sidesets) :
      \A h \in SidesetMeshsets(file.sidesets[s].id) :
        \A i, j \in DOMAIN sets[h].members :
          i < j =>
            /\ sets[h].members[i] # sets[h].members[j]
            /\ (sets[h].members[i][1] = "E" /\ sets[h].members[j][1] = "E") =>
                 ~SameOriented(ents[sets[h].members[i][2]].conn,
                               ents[sets[h].members[j][2]].conn)
\* update has run to its end and returned MB_SUCCESS
UpdateSucceeded ==
  /\ pc = "idle"
  /\ args.op = "load_file"
  /\ args.tdata # <<>>
  /\ ret = MB_SUCCESS
  /\ Len(upd.death) = Len(file.blocks)

\* the exodus elements << block, element >> of the file whose death_status at
\* the chosen time step is not 1
DeadInFile ==
  {kj \in (1..Len(file.blocks)) \X (1..MaxBlockElements) :
     /\ kj[2] <= Len(file.blocks[kj[1]].conn)
     /\ upd.death[kj[1]][kj[2]] # 1}

\* the global id the file gives node c
NodeId(c) == IF c \in 1..Len(file.node_num_map) THEN file.node_num_map[c] ELSE 0

\* the reference vertex of a node id: the first vertex of the file set, as it
\* was before the update, that carries the id (none or one)
RefVertex(id) ==
  {v \in 1..Len(verts) :
     /\ VH(v) \in Range(upd.before_fs)
     /\ TagGet(verts[v].gid) = id
     /\ \A w \in 1..(v - 1) :
          ~(VH(w) \in Range(upd.before_fs) /\ TagGet(verts[w].gid) = id)}

\* the reference elements sharing the connectivity of exodus element j of block
\* k: the elements alive before the update, of the dimension of the block's
\* type, that use the reference vertex of every node of the exodus element
RefMatches(k, j) ==
  {h \in upd.before_alive :
     /\ Dimension(ents[h].type) =
          Dimension(ExoIIElementMBEntity(static_element_name_to_type(file.blocks[k].elem_type)))
     /\ \A c \in Range(file.blocks[k].conn[j]) :
          \E v \in RefVertex(NodeId(c)) : v \in Range(ents[h].conn)}

\* the elements the update deleted
Deleted == upd.before_alive \ LiveElements(ents)

\* C10: after a successful update, the elements removed from the file set and
\* deleted are exactly the reference elements matched by shared connectivity
\* to exodus elements whose death_status at the chosen time step is not 1;
\* every element with death_status 1 remains, and the dead count reported for
\* a block equals the number of its elements with status other than 1.
C10_UpdateDeletesExactlyDead ==
  UpdateSucceeded =>
    /\ \A kj \in DeadInFile : Cardinality(RefMatches(kj[1], kj[2])) = 1
    /\ Deleted = UNION {RefMatches(kj[1], kj[2]) : kj \in DeadInFile}
    /\ sets[FileSetHandle].members =
         SelectSeq(upd.before_fs, LAMBDA m : m \notin {EH(h) : h \in Deleted})
    /\ \A k \in 1..Len(file.blocks) : \A j \in 1..Len(file.blocks[k].conn) :
         upd.death[k][j] = 1 => RefMatches(k, j) \cap Deleted = {}
    /\ Len(upd.report) = Len(file.blocks)
    /\ \A k \in 1..Len(file.blocks) :
         /\ upd.report[k].blockId = file.blocks[k].id
         /\ upd.report[k].dead =
              Cardinality({j \in 1..Len(file.blocks[k].conn) : upd.death[k][j] # 1})

\* a successful update that deleted a matched element and kept another whose
\* death_status is 1
C10_Witness ==
  /\ UpdateSucceeded
  /\ Deleted # {}
  /\ \E h \in Deleted : EH(h) \in Range(upd.before_fs)
  /\ \E k \in 1..Len(file.blocks) : \E j \in 1..Len(file.blocks[k].conn) :
       upd.death[k][j] = 1 /\ RefMatches(k, j) # {}
\* update has run its dead-element stage and returned
UpdateReachedDead ==
  /\ pc = "idle"
  /\ args.op = "load_file"
  /\ args.tdata # <<>>
  /\ Len(upd.death) = Len(file.blocks)

\* every connectivity entry of the file names a node of the file
ConnInFile ==
  \A k \in 1..Len(file.blocks) : \A c \in ConnEntries(file, k) : c \in 1..file.numNodes

\* the exodus elements << block, element >> with death_status other than 1, in
\* the order update visits them
DeadOrder ==
  LET perBlock == [k \in 1..Len(file.blocks) |->
                     SelectSeq([j \in 1..Len(file.blocks[k].conn) |-> << k, j >>],
                               LAMBDA kj : upd.death[kj[1]][kj[2]] # 1)]
  IN Flatten(perBlock)

\* the node ids of the n-th dead element and, of those in the matched-node map,
\* the reference vertices
DeadNodeIds(n) ==
  {NodeId(c) : c \in Range(file.blocks[DeadOrder[n][1]].conn[DeadOrder[n][2]])}
DeadRefNodes(n) ==
  {MapAt(upd.matched, id) : id \in {i \in DeadNodeIds(n) : MapHas(upd.matched, i)}}

\* the reference entities adjacent to all vertices of the n-th dead element when
\* update comes to it: those alive before the update and not deleted for one
\* of the n - 1 dead elements before it
DeadAdjacent(n) ==
  LET gone == {upd.deleted[i] : i \in {i \in 1..Len(upd.deleted) : i < n}}
      dim == Dimension(ExoIIElementMBEntity(
               static_element_name_to_type(file.blocks[DeadOrder[n][1]].elem_type)))
  IN {h \in upd.before_alive \ gone :
        Dimension(ents[h].type) = dim /\ DeadRefNodes(n) \subseteq Range(ents[h].conn)}

\* the n-th dead element has a node missing from the matched-node map, or the
\* number of reference entities adjacent to all of its vertices is not 1
DeadUnmatched(n) ==
  \/ \E id \in DeadNodeIds(n) : ~MapHas(upd.matched, id)
  \/ Cardinality(DeadAdjacent(n)) # 1

\* C11: during dead-element removal, update returns an error and processes no
\* further element as soon as a dead element has a node missing from the
\* matched-node map, or the number of reference entities adjacent to all of
\* its vertices is not exactly 1: when the n-th dead element is such an
\* element, update returns an error having deleted at most the matches of the
\* n - 1 dead elements before it.  (Files whose connectivity is in range.)
C11_UnmatchedDeadElementStopsUpdate ==
  (UpdateReachedDead /\ ConnInFile) =>
    \A n \in 1..Len(DeadOrder) :
      DeadUnmatched(n) =>
        /\ ret # MB_SUCCESS
        /\ Len(upd.deleted) <= n - 1

\* an update that deleted the match of one dead element and returned an error
\* at the next one, which has no match
C11_Witness ==
  /\ UpdateReachedDead
  /\ ConnInFile
  /\ ret \in {MB_FAILURE, MB_INVALID_SIZE}
  /\ Len(upd.deleted) = 1
  /\ Len(DeadOrder) >= 2
  /\ DeadUnmatched(2)
  /\ ~DeadUnmatched(1)
\* the coordinates update gives exodus node i: original + displacement at the
\* chosen time step, in the dimensions of the file
MovedTo(i, d) == file.coord[d][i] + vals_nod_var(file, d, upd.time_step, i)

\* the reference vertices that hold the updated coordinates of exodus node i
UpdatedFor(i) ==
  {v \in CubVerts(sets, FileSetHandle) :
     \A d \in 1..hdr.numDim : verts[v].coord[d] = MovedTo(i, d)}

\* the reference vertices whose global id is the id update looks node i up by
CarryingIdOf(i) ==
  {v \in CubVerts(sets, FileSetHandle) : TagGet(verts[v].gid) = NodeId(i)}

\* C12: in update with match-by-id, for every exodus node exactly one reference
\* vertex is updated (the one whose global id equals the node's node_num_map
\* entry, set to original + displacement), and after the matching loop
\* matched-count + lost-count = numNodes.  (Stated after the matching loop, for
\* the nodes whose id some reference vertex carries.)
C12_EachNodeUpdatesOneVertex ==
  pc = "updateBlockHeaders" =>
    /\ upd.found + upd.lost = hdr.numNodes
    /\ \A i \in 1..hdr.numNodes :
         CarryingIdOf(i) # {} =>
           /\ Cardinality(UpdatedFor(i)) = 1
           /\ UpdatedFor(i) \subseteq CarryingIdOf(i)
\* the comma-separated fields of a directive, empty fields kept
RECURSIVE Fields(_)
Fields(str) ==
  LET commas == {i \in 1..Len(str) : str[i] = ","} IN
  IF commas = {} THEN << str >>
  ELSE << SubSeq(str, 1, Min(commas) - 1) >>
         \o Fields(SubSeq(str, Min(commas) + 1, Len(str)))

\* the decimal digits and the number a string of them writes
Digits == << "0", "1", "2", "3", "4", "5", "6", "7", "8", "9" >>
IsNumber(str) == str # <<>> /\ \A i \in 1..Len(str) : str[i] \in Range(Digits)
RECURSIVE NumberOf(_)
NumberOf(str) ==
  IF str = <<>> THEN 0
  ELSE 10 * NumberOf(SubSeq(str, 1, Len(str) - 1))
         + (CHOOSE d \in 0..9 : Digits[d + 1] = str[Len(str)])

\* update has gone through the directive of this call
UpdateParsed ==
  /\ args.op = "load_file"
  /\ args.tdata # <<>>
  /\ load_file_subset(args.subset).code = MB_SUCCESS
  /\ pc # "update"

\* update rejected the directive; update went on past the time step check
DirectiveRejected == pc = "idle" /\ ret = MB_TYPE_OUT_OF_RANGE
TimeStepAccepted ==
  \/ pc \in {"updateNodes", "updateBlockHeaders", "updateDead"}
  \/ pc = "idle" /\ ret = MB_SUCCESS

\* a directive "coord,set" or "coord,,set": variable and op, no time step
OmitsTimeStep(f) ==
  /\ f[1] = << "c", "o", "o", "r", "d" >>
  /\ f[Len(f)] = << "s", "e", "t" >>
  /\ \/ Len(f) = 2
     \/ Len(f) = 3 /\ f[2] = <<>>

\* C13: when the update directive omits the time step, update uses time step 1
\* (so a directive without a time-step token is accepted); a given time step
\* is accepted only if it is a positive integer not greater than the size of
\* the time_step dimension, and update fails otherwise.
C13_TimeStepDefaultsToOne ==
  UpdateParsed =>
    LET f == Fields(args.tdata) IN
    /\ OmitsTimeStep(f) => (upd.time_step = 1 /\ ~DirectiveRejected)
    /\ (Len(f) = 3 /\ f[2] # <<>> /\ TimeStepAccepted) =>
         /\ IsNumber(f[2])
         /\ NumberOf(f[2]) \in 1..time_step_dim(file)
\* update went on past its checks of the variable name and the op
PastOpCheck ==
  \/ pc \in {"updateNodes", "updateBlockHeaders", "updateDead"}
  \/ pc = "idle" /\ ret = MB_SUCCESS

\* a directive with variable coord, a time step of the file and an op token
WithOp(f) ==
  /\ Len(f) = 3
  /\ f[1] = << "c", "o", "o", "r", "d" >>
  /\ IsNumber(f[2])
  /\ NumberOf(f[2]) \in 1..time_step_dim(file)
  /\ f[3] # <<>>

\* C14: update proceeds only when the directive's op token is 'set'; every
\* other op token (for example 'add' or 'foo') makes update return
\* not-implemented.  (A call that cannot open or read the file returns the
\* code of that failure.)
C14_OnlySetProceeds ==
  UpdateParsed =>
    LET f == Fields(args.tdata) IN
    /\ (PastOpCheck /\ Len(f) = 3) => f[3] = << "s", "e", "t" >>
    /\ (WithOp(f) /\ f[3] # << "s", "e", "t" >> /\ pc = "idle") =>
         ret \in {MB_NOT_IMPLEMENTED, MB_FILE_DOES_NOT_EXIST, MB_FAILURE}
\* a string with its upper-case letters replaced by lower-case ones
UpperLetters ==
  << "A", "B", "C", "D", "E", "F", "G", "H", "I", "J", "K", "L", "M",
     "N", "O", "P", "Q", "R", "S", "T", "U", "V", "W", "X", "Y", "Z" >>
LowerLetters ==
  << "a", "b", "c", "d", "e", "f", "g", "h", "i", "j", "k", "l", "m",
     "n", "o", "p", "q", "r", "s", "t", "u", "v", "w", "x", "y", "z" >>
ToLower(str) ==
  [i \in 1..Len(str) |->
     IF str[i] \in Range(UpperLetters)
       THEN LowerLetters[CHOOSE k \in 1..26 : UpperLetters[k] = str[i]]
       ELSE str[i]]

\* a directive with a variable name, a time step of the file and the op set
WithVariable(f) ==
  /\ Len(f) = 3
  /\ f[1] # <<>>
  /\ IsNumber(f[2])
  /\ NumberOf(f[2]) \in 1..time_step_dim(file)
  /\ f[3] = << "s", "e", "t" >>

\* C15: update accepts the directive's variable name when it equals 'coord'
\* under case-insensitive comparison (coord, COORD, Coord, ...) and returns
\* not-implemented for every other variable name.  (A call that cannot open or
\* read the file returns the code of that failure.)
C15_CoordInAnyCase ==
  (UpdateParsed /\ WithVariable(Fields(args.tdata)) /\ pc = "idle") =>
    IF ToLower(Fields(args.tdata)[1]) = << "c", "o", "o", "r", "d" >>
      THEN ret # MB_NOT_IMPLEMENTED
      ELSE ret \in {MB_NOT_IMPLEMENTED, MB_FILE_DOES_NOT_EXIST, MB_FAILURE}
\* read_nodesets has run in the call and returned MB_SUCCESS
NodesetsRead ==
  /\ pc = "sidesets"
  /\ StageStatus("nodesets") = MB_SUCCESS

\* the meshsets made by this load that carry node-set id as dirichlet tag
NodesetMeshsets(id) == {h \in DOMAIN sets : h > initRange.ns /\ sets[h].dir = << id >>}

\* C16: after read_nodesets, the distribution-factor vector tagged on a newly
\* created node-set meshset is either empty or has length equal to the node
\* count num_nod_ns of that set in the file, also when some of the set's nodes
\* are filtered out because no selected block touches them.
C16_NodesetFactorsPerFileNode ==
  NodesetsRead =>
    \A s \in 1..Len(file.nodesets) :
      \A h \in NodesetMeshsets(file.nodesets[s].id) :
        \/ sets[h].df = <<>>
        \/ Len(sets[h].df) = Len(file.nodesets[s].nodes)

\* ---------------------------------------------------------------------- C17
\* the node-set meshsets the database held before the running load began
EarlierNodesetMeshsets ==
  {h \in DOMAIN sets : h <= initRange.ns /\ sets[h].dir # NoTag}

\* the running load is a second load of the whole file: the database already
\* holds every node and element of the file, and node sets, from a load before
SecondWholeLoad ==
  /\ calls = 2
  /\ args.op = "load_file" /\ args.subset.null /\ args.tdata = <<>>
  /\ initRange.nv = file.numNodes
  /\ initRange.ne = NumElements(file)
  /\ EarlierNodesetMeshsets # {}

\* C17: when the same file is loaded twice into the same database, the
\* read_nodesets stage of the second load leaves the members of each node set
\* of the first load as they were and doubles the length of its
\* distribution-factor vector when that vector is not empty.
C17_SecondLoadDoublesFactors ==
  [][(SecondWholeLoad /\ pc = "nodesets" /\ pc' = "sidesets") =>
       \A h \in EarlierNodesetMeshsets :
         /\ sets'[h].members = sets[h].members
         /\ sets[h].df # NoTag => Len(sets'[h].df) = 2 * Len(sets[h].df)]_vars

\* ---------------------------------------------------------------------- C18
\* read_global_ids has run in the call and returned MB_SUCCESS
GlobalIdsRead == pc = "nodesets" /\ StageStatus("globalIds") = MB_SUCCESS

\* the vertex created for the exodus node with 1-based ordinal i
NodeVertex(i) == verts[MB_START_ID + vertexOffset + i - 1]

\* C18: after the nodes and global ids of a load are read, the vertex of the
\* exodus node with 1-based ordinal i has global id i + vertexOffset when the
\* file has no node_num_map, and global id node_num_map[i] when it has one.
C18_VertexGlobalIds ==
  GlobalIdsRead =>
    \A i \in 1..hdr.numNodes :
      TagGet(NodeVertex(i).gid) =
        IF file.node_num_map = <<>> THEN i + vertexOffset
                                    ELSE file.node_num_map[i]

\* ---------------------------------------------------------------------- C19
\* the step is a whole call of read_tag_values
TagValuesCall ==
  pc = "idle" /\ calls' = calls + 1 /\ args'.op = "read_tag_values"

\* the ids of the file's blocks, node sets or side sets, in file order, for
\* the three set tag names (no id for another name)
IdsInFile(tag_name) ==
  CASE tag_name = MATERIAL_SET_TAG_NAME ->
         [k \in 1..Len(file.blocks) |-> file.blocks[k].id]
    [] tag_name = DIRICHLET_SET_TAG_NAME ->
         [k \in 1..Len(file.nodesets) |-> file.nodesets[k].id]
    [] tag_name = NEUMANN_SET_TAG_NAME ->
         [k \in 1..Len(file.sidesets) |-> file.sidesets[k].id]
    [] OTHER -> <<>>

\* C19: a read_tag_values call with no subset list that succeeds leaves in its
\* id list exactly the file's eb_prop1, ns_prop1 or ss_prop1 array for the tag
\* name given (no entry when the file has none); a call with a subset list
\* returns MB_UNSUPPORTED_OPERATION and does not open the file.
C19_TagValuesAreFileIds ==
  [][TagValuesCall =>
       /\ (args'.subset.null /\ ret' = MB_SUCCESS) =>
             id_array' = IdsInFile(args'.tag_name)
       /\ ~args'.subset.null =>
             /\ ret' = MB_UNSUPPORTED_OPERATION
             /\ ncFile' = ncFile /\ fileOpen' = fileOpen]_vars

\* ---------------------------------------------------------------------- C20
\* the exodus node i occurs in the connectivity of a block being read in
InSelectedBlock(i) ==
  \E k \in DOMAIN blocksLoading :
    /\ blocksLoading[k].reading_in
    /\ \E e \in DOMAIN file.blocks[k].conn : i \in Range(file.blocks[k].conn[e])

\* the exodus node i is marked in nodesInLoadedBlocks (nodeTouched)
NodeTouched(i) ==
  i + 1 \in DOMAIN nodesInLoadedBlocks /\ nodesInLoadedBlocks[i + 1] = 1

\* the node-set meshsets created by the running load
NewNodesetMeshsets ==
  {h \in DOMAIN sets : h > initRange.ns /\ sets[h].dir # NoTag}

\* C20: after read_nodesets, every vertex in a node-set meshset of the load is
\* the vertex of an exodus node that is marked touched and occurs in the
\* connectivity of a selected block, and a node set of the file none of whose
\* nodes is touched has no meshset.
C20_NodesetMembersTouched ==
  NodesetsRead =>
    /\ \A h \in NewNodesetMeshsets : \A m \in DOMAIN sets[h].members :
          LET v == sets[h].members[m] IN
          /\ v[1] = "V"
          /\ NodeTouched(v[2] - vertexOffset)
          /\ InSelectedBlock(v[2] - vertexOffset)
    /\ \A s \in DOMAIN file.nodesets :
          (\A j \in DOMAIN file.nodesets[s].nodes :
              ~NodeTouched(file.nodesets[s].nodes[j]))
            => NodesetMeshsets(file.nodesets[s].id) = {}

\* a load of the whole file in which a node set lost a node to the filter and
\* another node set, with no touched node, made no meshset
C20_Witness ==
  /\ NodesetsRead
  /\ \E s \in DOMAIN file.nodesets : \E h \in NodesetMeshsets(file.nodesets[s].id) :
        /\ sets[h].members # <<>>
        /\ Len(sets[h].members) < Len(file.nodesets[s].nodes)
  /\ \E s \in DOMAIN file.nodesets :
        /\ file.nodesets[s].nodes # <<>>
        /\ NodesetMeshsets(file.nodesets[s].id) = {}

\* ---------------------------------------------------------------------- C21
\* the running (or last) call is a load_file without an update directive
FullLoad == args.op = "load_file" /\ args.tdata = <<>>

\* the stages of load_file in the order of its code
StageOrder ==
  << "header", "nodes", "blockHeaders", "elements", "globalIds", "nodesets",
     "sidesets", "qa" >>

\* C21: in a load_file without an update directive the stages that have run
\* are, in order, the first stages of header, nodes, block headers, elements,
\* global ids, node sets, side sets, QA records; while the call runs the stage
\* about to start is the one after the last that finished; and the QA records
\* are read only when a file set is given.
C21_StagesInOrder ==
  FullLoad =>
    /\ Len(stages) <= Len(StageOrder)
    /\ \A i \in DOMAIN stages : stages[i].stage = StageOrder[i]
    /\ pc # "idle" => /\ Len(stages) < Len(StageOrder)
                      /\ pc = StageOrder[Len(stages) + 1]
    /\ StageRan("qa") => args.file_set
    /\ (pc = "idle" /\ ret = MB_SUCCESS /\ ~args.file_set) =>
          Len(stages) = Len(StageOrder) - 1

\* a load with a file set, of a file with QA records, that ran all eight stages
C21_Witness ==
  /\ FullLoad /\ pc = "idle" /\ ret = MB_SUCCESS
  /\ Len(stages) = Len(StageOrder) /\ args.file_set
  /\ file.num_qa_rec > 0

\* ---------------------------------------------------------------------- C22
\* the positions of a call inside update
UpdatePcs == {"update", "updateHeader", "updateNodes", "updateBlockHeaders", "updateDead"}

\* the running call is a load_file with an update directive, past its entry
UpdateRunning == args.op = "load_file" /\ args.tdata # <<>> /\ pc # "idle"

\* C22: a load_file with a non-empty tdata string runs only update: none of
\* its steps creates a vertex, an element or a meshset (block, node-set or
\* side-set) or sets a QA tag, and no stage of the full load runs; a
\* load_file whose tdata is absent or empty never runs update.
C22_UpdateOrFullLoad ==
  /\ [][UpdateRunning =>
          /\ pc \in UpdatePcs
          /\ Len(verts') = Len(verts)
          /\ Len(ents') = Len(ents)
          /\ LiveElements(ents') \subseteq LiveElements(ents)
          /\ Len(sets') = Len(sets)
          /\ \A h \in DOMAIN sets : sets'[h].qa = sets[h].qa
          /\ stages' = <<>>]_vars
  /\ [](FullLoad => pc \notin UpdatePcs /\ upd = NoUpd)

\* an update that ran to its end and deleted an element
C22_Witness ==
  /\ args.op = "load_file" /\ args.tdata # <<>>
  /\ pc = "idle" /\ ret = MB_SUCCESS
  /\ Len(upd.deleted) > 0

\* ---------------------------------------------------------------------- C23
\* the vertex sequence d is the sequence c read from some position on, round
\* the ring, forwards or backwards
IsRotationOf(c, d) ==
  /\ Len(c) = Len(d)
  /\ \E k \in 0..(Len(c) - 1) :
       \/ \A j \in 1..Len(c) : d[j] = c[((j - 1 + k) % Len(c)) + 1]
       \/ \A j \in 1..Len(c) : d[j] = c[((k + Len(c) - j) % Len(c)) + 1]

\* the entities that existed when entity e was created and that
\* create_sideset_element is to return instead of creating e: of e's
\* dimension, adjacent to e's first vertex, with a rotation of e's vertices
EarlierSame(es, e) ==
  {h \in 1..(e - 1) :
     /\ es[h].alive
     /\ Dimension(es[h].type) = Dimension(es[e].type)
     /\ es[e].conn[1] \in Range(es[h].conn)
     /\ IsRotationOf(es[e].conn, es[h].conn)}

\* C23: create_sideset_element creates an entity only when no entity of the
\* target dimension adjacent to the tuple's first vertex has a vertex sequence
\* that is a rotation of the tuple or of the reversed tuple; a side whose
\* vertices already form such an entity is given that entity.
C23_SideCreatedOnlyWhenNew ==
  [][pc = "sidesets" =>
       \A e \in (Len(ents) + 1)..Len(ents') : EarlierSame(ents', e) = {}]_vars

\* ---------------------------------------------------------------------- C24
\* the meshsets created by the running load that carry the neumann id
NeumannMeshsets(id) ==
  {h \in DOMAIN sets : h > initRange.ns /\ sets[h].neu = << id >>}

\* C24: after read_sidesets, at most one meshset created by the load carries a
\* given neumann id: the sides of a second side set of the file with the same
\* id are appended to the meshset created for the first.
C24_OneMeshsetPerNeumannId ==
  (pc = "qa" /\ StageStatus("sidesets") = MB_SUCCESS) =>
    \A s \in DOMAIN file.sidesets :
      Cardinality(NeumannMeshsets(file.sidesets[s].id)) <= 1

\* ---------------------------------------------------------------------- C25
\* the factors the file gives the exodus node i in a node set with the id
FileFactors(id, i) ==
  UNION {{file.nodesets[s].df[j] :
            j \in {q \in DOMAIN file.nodesets[s].df :
                     q <= Len(file.nodesets[s].nodes)
                     /\ file.nodesets[s].nodes[q] = i}} :
         s \in {t \in DOMAIN file.nodesets : file.nodesets[t].id = id}}

\* C25: after read_nodesets, also where nodes were appended to a meshset made
\* earlier in the load, the distribution-factor vector of a node-set meshset
\* has one factor per member and its k-th factor is a factor the file gives
\* the k-th member: the existing factors come first and the factors of the
\* appended nodes follow in the order the nodes were appended.
C25_FactorsFollowMembers ==
  NodesetsRead =>
    \A h \in NewNodesetMeshsets :
      sets[h].df # NoTag =>
        /\ Len(sets[h].df) = Len(sets[h].members)
        /\ \A k \in DOMAIN sets[h].df :
             sets[h].df[k] \in
               FileFactors(sets[h].dir[1], sets[h].members[k][2] - vertexOffset)

\* ---------------------------------------------------------------------- C26
\* the number of distribution factors of one emitted side: hex face 4, tet
\* face 3, quad edge 2, shell side 1 or 2: 4, shell edge 2, flat side of a
\* triangle in 3D 3, triangle edge 2
FactorsPerSide(t, side_id) ==
  CASE InHexRange(t) -> 4
    [] InTetraRange(t) -> 3
    [] InQuadRange(t) -> 2
    [] InShellRange(t) -> IF side_id \in {1, 2} THEN 4 ELSE 2
    [] InTriRange(t) -> IF hdr.numDim = 3 /\ side_id <= 2 THEN 3 ELSE 2
    [] OTHER -> 0

\* every side of side set s of the file lies in a block being read in
AllSidesSelected(s) ==
  \A i \in DOMAIN file.sidesets[s].elems :
    LET k == OwningBlock(file, file.sidesets[s].elems[i])
    IN k # 0 /\ blocksLoading[k].reading_in

\* the number of factors the sides of side set s take together
FactorsOfSideset(s) ==
  SumSeq([i \in DOMAIN file.sidesets[s].elems |->
            FactorsPerSide(
              static_element_name_to_type(
                file.blocks[OwningBlock(file, file.sidesets[s].elems[i])].elem_type),
              file.sidesets[s].sides[i])])

\* C26: for a side set of the file with distribution factors whose sides all
\* lie in selected blocks, the vector stored on a meshset carrying its id
\* after read_sidesets holds, in file order, 4 factors per hex face, 3 per tet face, 2 per quad
\* edge, 2 per tri edge, 3 per flat tri side in 3D, 4 per shell side 1 or 2 and
\* 2 per shell edge; its length is the sum of these counts.
C26_FactorsPerEmittedSide ==
  SidesetsRead =>
    \A s \in DOMAIN file.sidesets :
      (Len(file.sidesets[s].df) # 0 /\ AllSidesSelected(s)) =>
        \E h \in NeumannMeshsets(file.sidesets[s].id) :
          /\ Len(sets[h].df) = FactorsOfSideset(s)
          /\ \A k \in DOMAIN sets[h].df :
               k <= Len(file.sidesets[s].df) => sets[h].df[k] = file.sidesets[s].df[k]

\* a side set of two or more sides with factors was stored
C26_Witness ==
  /\ SidesetsRead
  /\ \E s \in DOMAIN file.sidesets :
       /\ Len(file.sidesets[s].df) # 0 /\ AllSidesSelected(s)
       /\ Len(file.sidesets[s].elems) >= 2
       /\ \E h \in NeumannMeshsets(file.sidesets[s].id) :
            Len(sets[h].df) = FactorsOfSideset(s) /\ Len(sets[h].df) >= 6

\* ---------------------------------------------------------------------- C27
\* read_block_headers has just run, in load_file or in update
BlockHeadersRead == pc \in {"elements", "updateDead"}

\* the records of blocksLoading whose id interval holds exodus element id e
RecordsHolding(e) ==
  {k \in DOMAIN blocksLoading :
     /\ e >= blocksLoading[k].startExoId
     /\ e < blocksLoading[k].startExoId + blocksLoading[k].numElements}

\* C27: after read_block_headers the record of the k-th block of the file has
\* startExoId = 1 + the number of elements in the blocks before it, no exodus
\* element id lies in the id interval of two records of blocksLoading, and
\* find_side_element_type finds for every element id of the file the one
\* block that contains it.
C27_BlockIntervalsDisjoint ==
  BlockHeadersRead =>
    /\ Len(blocksLoading) >= Len(file.blocks)
    /\ \A k \in DOMAIN file.blocks :
         blocksLoading[k].startExoId =
           1 + SumSeq([m \in 1..(k - 1) |-> Len(file.blocks[m].conn)])
    /\ \A e \in 1..NumElements(file) :
         /\ Cardinality(RecordsHolding(e)) = 1
         /\ find_side_element_type(blocksLoading, e, 0, 1).k = OwningBlock(file, e)

\* ---------------------------------------------------------------------- C28
\* read_elements has run in the call and returned MB_SUCCESS
ElementsRead == pc = "globalIds" /\ StageStatus("elements") = MB_SUCCESS

\* values the part of the connectivity buffer not yet written can hold
BufferGarbage == {0, 2 ^ IntBits - 1}

\* the buffer of block k before the pass: the indices read from the file in
\* its first ints, the rest as allocated
RawBuffer(k, width, g) ==
  LET raw == Flatten(file.blocks[k].conn)
  IN raw \o [s \in 1..((width - 1) * Len(raw)) |-> g]

\* C28: for every block being read in and every handle width of at least the
\* int width, after the tail-to-head conversion pass slot k of the
\* connectivity buffer holds raw[k] + vertexOffset, raw[k] being the k-th
\* index read from the file, and this is the connectivity the block's
\* elements have: no raw index is overwritten before it is read.
C28_InPlaceConversionKeepsIndices ==
  ElementsRead =>
    \A k \in DOMAIN blocksLoading : blocksLoading[k].reading_in =>
      \A width \in HandleWidths : \A g \in BufferGarbage :
        LET raw == Flatten(file.blocks[k].conn)
            vpe == Len(file.blocks[k].conn[1])
            r == ConvertInPlace(RawBuffer(k, width, g), Len(raw) - 1, width,
                                Len(nodesInLoadedBlocks), vertexOffset)
        IN /\ r.ok
           /\ \A j \in DOMAIN raw :
                /\ HandleAt(r.mem, j - 1, width) = raw[j] + vertexOffset
                /\ ents[blocksLoading[k].startMBId + ((j - 1) \div vpe)]
                     .conn[((j - 1) % vpe) + 1] = raw[j] + vertexOffset

\* a block of two elements was converted on a second load (vertexOffset > 0)
C28_Witness ==
  /\ ElementsRead
  /\ vertexOffset > 0
  /\ \E k \in DOMAIN blocksLoading :
       blocksLoading[k].reading_in /\ blocksLoading[k].numElements = MaxBlockElements

\* ---------------------------------------------------------------------- C29
\* C29: after read_global_ids every element of a block being read in, at
\* position e of the file-wide exodus element order, has global id
\* elem_map[e], also when a block that is not selected precedes its block.
C29_ElementGlobalIds ==
  GlobalIdsRead =>
    \A k \in DOMAIN blocksLoading : blocksLoading[k].reading_in =>
      \A j \in 1..blocksLoading[k].numElements :
        TagGet(ents[blocksLoading[k].startMBId + j - 1].gid) =
          file.elem_map[blocksLoading[k].startExoId + j - 1]

\* ---------------------------------------------------------------------- C30
\* read_sidesets as it stands before side set s of the file, the database
\* calls succeeding
RECURSIVE SidesetStateBefore(_)
SidesetStateBefore(s) ==
  IF s = 1 THEN [ents |-> ents, sets |-> sets, status |-> MB_SUCCESS]
  ELSE ReadSideset(SidesetStateBefore(s - 1), s - 1,
                   {h \in DOMAIN sets : h > initRange.ns}, MB_SUCCESS)

\* C30: in create_ss_elements every read of the scratch vector of
\* distribution factors is at an index df_index with
\* 0 <= df_index < num_dist_factors, whatever the file holds.  (Stated
\* where load_file is about to run read_sidesets, for each side set the
\* loop gets to.)
C30_FactorReadsInBounds ==
  pc = "sidesets" =>
    \A s \in 1..hdr.numSideSets :
      SidesetStateBefore(s).status = MB_SUCCESS =>
        ~create_ss_elements(SidesetStateBefore(s).ents, file.sidesets[s],
                            blocksLoading).oob

====
